---- MODULE Spec2Model ----
(***************************************************************************)
(* The CAT command/field codec of the Yaesu FTX-1 memory manipulator:      *)
(* src/src/parsers.rs, src/src/ftx1.rs and src/src/ftdx10.rs.              *)
(*                                                                         *)
(* Bytes (u8) and characters (char) are modelled by their numeric code.    *)
(* A call of one codec function is a two-state run: the initial state      *)
(* holds the function's name (op) and its input (arg) at pc = "call", the  *)
(* function's action computes result and moves to pc = "return".           *)
(* overflow_checks is the build's setting: with it (a debug build) an      *)
(* integer overflow panics, without it (a release build) the value wraps.  *)
(*                                                                         *)
(* read_radio_data of src/src/main.rs is a longer run, op =                *)
(* "read_radio_data": rd is its position, cs the position of the cat_send  *)
(* call it is in, loop_ch the loop variable; port_tx is the last frame     *)
(* written to the port, port_rx the buffer cat_send holds, read_outcome    *)
(* how its last read ended and read_errors how many reads of the call      *)
(* failed otherwise; outstanding says a request is written and its read    *)
(* not finished; id_reported is what read_validate_id printed,             *)
(* csv_created whether the CSV writer exists, loop_mem and loop_tag are    *)
(* read_mem's and read_tag's answers for loop_ch and written the record    *)
(* serialized for it.                                                      *)
(***************************************************************************)
EXTENDS Integers, Sequences, FiniteSets, TLC

VARIABLES pc, op, arg, result, overflow_checks,
          rd, cs, loop_ch, port_tx, port_rx, read_outcome, read_errors,
          outstanding, id_reported, csv_created, loop_mem, loop_tag, written

run_vars == <<rd, cs, loop_ch, port_tx, port_rx, read_outcome, read_errors,
              outstanding, id_reported, csv_created, loop_mem, loop_tag, written>>

vars == <<pc, op, arg, result, overflow_checks, run_vars>>

----------------------------------------------------------------------------
(* Results: Ok(v), Err(()) and a panic (process abort).                    *)

Ok(v) == [tag |-> "Ok", val |-> v]
Err == [tag |-> "Err"]
Panic == [tag |-> "Panic"]
NoResult == [tag |-> "None"]

IsOk(r) == r.tag = "Ok"
IsErr(r) == r.tag = "Err"

None == [some |-> FALSE, v |-> <<>>]
Some(p) == [some |-> TRUE, v |-> p]

----------------------------------------------------------------------------
(* ASCII codes of the characters the codec names.                          *)

Asc(c) ==
    CASE c = " " -> 32 [] c = "+" -> 43 [] c = "-" -> 45 [] c = "/" -> 47
      [] c = "0" -> 48 [] c = "1" -> 49 [] c = "2" -> 50 [] c = "3" -> 51
      [] c = "4" -> 52 [] c = "5" -> 53 [] c = "6" -> 54 [] c = "7" -> 55
      [] c = "8" -> 56 [] c = "9" -> 57 [] c = ":" -> 58 [] c = ";" -> 59
      [] c = "?" -> 63 [] c = "A" -> 65 [] c = "B" -> 66 [] c = "C" -> 67
      [] c = "D" -> 68 [] c = "E" -> 69 [] c = "F" -> 70 [] c = "G" -> 71
      [] c = "H" -> 72 [] c = "I" -> 73 [] c = "L" -> 76 [] c = "M" -> 77
      [] c = "N" -> 78 [] c = "P" -> 80 [] c = "R" -> 82 [] c = "T" -> 84
      [] c = "U" -> 85 [] c = "X" -> 88 [] c = "a" -> 97

Str(s) == [i \in DOMAIN s |-> Asc(s[i])]

Range(s) == {s[i] : i \in DOMAIN s}

Contains(s, x) == \E i \in DOMAIN s : s[i] = x

\* All sequences over alphabet A with length lo..hi.
SeqsOf(A, lo, hi) == UNION {[1..n -> A] : n \in lo..hi}

\* k copies of x.
Fill(x, k) == [i \in 1..k |-> x]

\* `c as u8`: a char keeps its low 8 bits.
AsU8(c) == c % 256

\* `(b as char).to_digit(10)`: -1 stands for None.
to_digit(b) == IF b >= Asc("0") /\ b <= Asc("9") THEN b - Asc("0") ELSE -1

RECURSIVE Pow10(_)
Pow10(e) == IF e = 0 THEN 1 ELSE 10 * Pow10(e - 1)

----------------------------------------------------------------------------
(* Command descriptors.                                                    *)

CMD_ID == [code |-> Str(<<"I", "D">>), read_params |-> 4]
CMD_MR == [code |-> Str(<<"M", "R">>), read_params |-> 27]
CMD_MT == [code |-> Str(<<"M", "T">>), read_params |-> 17]
CMD_MC == [code |-> Str(<<"M", "C">>), read_params |-> 6]
CMD_CN == [code |-> Str(<<"C", "N">>), read_params |-> 5]

ftdx10_CMD_ID == [code |-> Str(<<"I", "D">>), read_params |-> 4]
ftdx10_CMD_MD == [code |-> Str(<<"M", "D">>), read_params |-> 2]
ftdx10_CMD_PC == [code |-> Str(<<"P", "C">>), read_params |-> 3]
ftdx10_CMD_TX == [code |-> Str(<<"T", "X">>), read_params |-> 1]

Ftx1Cmds == {CMD_ID, CMD_MR, CMD_MT, CMD_MC, CMD_CN}
Ftdx10Cmds == {ftdx10_CMD_ID, ftdx10_CMD_MD, ftdx10_CMD_PC, ftdx10_CMD_TX}

----------------------------------------------------------------------------
(* Cmd::tx_buffer.                                                         *)

\* ftx1: an unbounded Vec<u8>.
tx_buffer(cmd, params) ==
    LET head == <<AsU8(cmd.code[1]), AsU8(cmd.code[2])>>
        body == IF params.some
                  THEN [i \in DOMAIN params.v |-> AsU8(params.v[i])]
                  ELSE <<>>
    IN  Ok((head \o body) \o <<Asc(";")>>)

\* heapless::Vec<u8, 8>.
HEAPLESS_CAP == 8

\* heapless push: Err (the vector unchanged) when the vector is full.
heapless_push(vec, x) ==
    IF Len(vec) < HEAPLESS_CAP THEN Ok(Append(vec, x)) ELSE Err

\* p.iter().for_each(|b| tx_vec.push(*b as u8).unwrap()), from item i on.
RECURSIVE push_params(_, _, _)
push_params(vec, p, i) ==
    IF i > Len(p) THEN Ok(vec)
    ELSE LET r == heapless_push(vec, AsU8(p[i]))
         IN  IF IsOk(r) THEN push_params(r.val, p, i + 1) ELSE Panic

\* ftdx10: the terminator's push is `.ok()`, its failure is dropped.
ftdx10_tx_buffer(cmd, params) ==
    LET head == <<AsU8(cmd.code[1]), AsU8(cmd.code[2])>>
        body == IF params.some THEN push_params(head, params.v, 1) ELSE Ok(head)
    IN  IF ~IsOk(body) THEN Panic
        ELSE LET t == heapless_push(body.val, Asc(";"))
             IN  IF IsOk(t) THEN Ok(t.val) ELSE Ok(body.val)

----------------------------------------------------------------------------
(* Cmd::is_reply_ok.                                                       *)

is_reply_ok_no_terminator(cmd, rx_buffer) ==
    IF Len(rx_buffer) < 3 THEN Err
    ELSE LET code0 == Contains(rx_buffer, AsU8(cmd.code[1]))
             code1 == Contains(rx_buffer, AsU8(cmd.code[2]))
             params == Len(rx_buffer) - 3 = cmd.read_params
         IN  IF code0 /\ code1 /\ params THEN Ok(<<>>) ELSE Err

is_reply_ok(cmd, rx_buffer) ==
    IF Len(rx_buffer) < 3 THEN Err
    ELSE LET code0 == Contains(rx_buffer, AsU8(cmd.code[1]))
             code1 == Contains(rx_buffer, AsU8(cmd.code[2]))
             params == Len(rx_buffer) - 3 = cmd.read_params
             terminator == Contains(rx_buffer, Asc(";"))
         IN  IF terminator /\ code0 /\ code1 /\ params THEN Ok(<<>>) ELSE Err

\* is_reply_ok testing the mnemonic at the front and ';' at the end.
ftdx10_is_reply_ok_positional(cmd, rx_buffer) ==
    IF Len(rx_buffer) < 3 THEN Err
    ELSE LET code0 == rx_buffer[1] = AsU8(cmd.code[1])
             code1 == rx_buffer[2] = AsU8(cmd.code[2])
             params == Len(rx_buffer) - 3 = cmd.read_params
             terminator == rx_buffer[Len(rx_buffer)] = Asc(";")
         IN  IF terminator /\ code0 /\ code1 /\ params THEN Ok(<<>>) ELSE Err

ftdx10_is_reply_ok(cmd, rx_buffer) ==
    IF Len(rx_buffer) < 3 THEN Err
    ELSE LET code0 == Contains(rx_buffer, AsU8(cmd.code[1]))
             code1 == Contains(rx_buffer, AsU8(cmd.code[2]))
             params == Len(rx_buffer) - 3 = cmd.read_params
             terminator == Contains(rx_buffer, Asc(";"))
         IN  IF terminator /\ code0 /\ code1 /\ params THEN Ok(<<>>) ELSE Err

----------------------------------------------------------------------------
(* Decimal formatting (core::fmt) and the field parsers (parsers.rs).      *)

\* The decimal digits of a natural number, most significant first.
RECURSIVE DecDigits(_)
DecDigits(n) ==
    IF n < 10 THEN <<Asc("0") + n>>
    ELSE Append(DecDigits(n \div 10), Asc("0") + (n % 10))

\* Zero padding to a minimum width: longer texts are kept whole.
ZeroPad(s, width) ==
    IF Len(s) >= width THEN s ELSE Fill(Asc("0"), width - Len(s)) \o s

\* The loop shared by the parsers: digit i of `width` weighs 10^(width - i).
RECURSIVE digit_loop(_, _, _, _)
digit_loop(buffer, width, i, acc) ==
    IF i > width \/ i > Len(buffer) THEN Ok(acc)
    ELSE LET n == to_digit(buffer[i])
         IN  IF n < 0 THEN Err
             ELSE digit_loop(buffer, width, i + 1, acc + n * Pow10(width - i))

buf4_to_u16(buffer) ==
    IF Len(buffer) # 4 THEN Err ELSE digit_loop(buffer, 4, 1, 0)

buf9_to_u32(buffer) ==
    IF Len(buffer) # 9 THEN Err ELSE digit_loop(buffer, 9, 1, 0)

\* `signed as i16`: the low 16 bits, in two's complement.
as_i16(x) == ((x + 32768) % 65536) - 32768

\* buf5_to_i16 without its test against i16::MIN and i16::MAX.
buf5_to_i16_unranged(buffer) ==
    IF Len(buffer) # 6 THEN Err
    ELSE LET sign == IF buffer[1] = Asc("-") THEN -1 ELSE 1
             r == digit_loop(Tail(buffer), 5, 1, 0)
         IN  IF IsOk(r) THEN Ok(as_i16(r.val * sign)) ELSE Err

\* The digits are summed in i32 (at most 99999), then the signed value is
\* tested against the i16 range.
buf5_to_i16(buffer) ==
    IF Len(buffer) # 6 THEN Err
    ELSE LET sign == IF buffer[1] = Asc("-") THEN -1 ELSE 1
             r == digit_loop(Tail(buffer), 5, 1, 0)
         IN  IF ~IsOk(r) THEN Err
             ELSE LET signed == r.val * sign
                  IN  IF signed < -32768 \/ signed > 32767 THEN Err
                      ELSE Ok(as_i16(signed))

\* buf4_to_i16 refusing a first byte that is neither '+' nor '-'.
buf4_to_i16_signed_only(buffer) ==
    IF Len(buffer) # 5 \/ buffer[1] \notin {Asc("+"), Asc("-")} THEN Err
    ELSE LET sign == IF buffer[1] = Asc("-") THEN -1 ELSE 1
             r == digit_loop(Tail(buffer), 4, 1, 0)
         IN  IF IsOk(r) THEN Ok(r.val * sign) ELSE Err

buf4_to_i16(buffer) ==
    IF Len(buffer) # 5 THEN Err
    ELSE LET sign == IF buffer[1] = Asc("-") THEN -1 ELSE 1
             r == digit_loop(Tail(buffer), 4, 1, 0)
         IN  IF IsOk(r) THEN Ok(r.val * sign) ELSE Err

----------------------------------------------------------------------------
(* FrequencyHz.                                                            *)

FrequencyHz_try_from_u32_inclusive(item) ==
    IF \/ item >= 30000 /\ item <= 174000000
       \/ item >= 400000000 /\ item < 470000000
      THEN Ok(item) ELSE Err

FrequencyHz_try_from_u32(item) ==
    IF \/ item >= 30000 /\ item < 174000000
       \/ item >= 400000000 /\ item < 470000000
      THEN Ok(item) ELSE Err

\* TryFrom<&[u8]> handing the parsed number over without the band test.
FrequencyHz_try_from_bytes_any_value(item) ==
    IF Len(item) # 9 THEN Err ELSE buf9_to_u32(item)

FrequencyHz_try_from_bytes(item) ==
    IF Len(item) # 9 THEN Err
    ELSE LET value == buf9_to_u32(item)
         IN  IF IsOk(value) THEN FrequencyHz_try_from_u32(value.val) ELSE Err

FrequencyHz_fmt_width8(value) == ZeroPad(DecDigits(value), 8)

\* write!(f, "{:09}", self.value)
FrequencyHz_fmt(value) == ZeroPad(DecDigits(value), 9)

----------------------------------------------------------------------------
(* ClarifierOffsetHz.                                                      *)

I16_MIN == -32768
I16_MAX == 32767

\* i16::abs: the absolute value of I16_MIN does not fit.
i16_abs(x, checks) ==
    IF x = I16_MIN THEN (IF checks THEN Panic ELSE Ok(I16_MIN))
    ELSE Ok(IF x < 0 THEN -x ELSE x)

ClarifierOffsetHz_try_from_i16(item, checks) ==
    LET a == i16_abs(item, checks)
    IN  IF ~IsOk(a) THEN Panic
        ELSE IF a.val > 9990 THEN Err ELSE Ok(item)

ClarifierOffsetHz_try_from_bytes(item, checks) ==
    IF Len(item) # 5 THEN Err
    ELSE LET value == buf4_to_i16(item)
         IN  IF IsOk(value) THEN ClarifierOffsetHz_try_from_i16(value.val, checks)
             ELSE Err

ClarifierOffsetHz_fmt_no_plus(value) ==
    IF value < 0 THEN <<Asc("-")>> \o ZeroPad(DecDigits(-value), 4)
    ELSE ZeroPad(DecDigits(value), 5)

\* write!(f, "{:+05}", self.value): the sign counts in the width of 5.
ClarifierOffsetHz_fmt(value) ==
    <<IF value < 0 THEN Asc("-") ELSE Asc("+")>>
        \o ZeroPad(DecDigits(IF value < 0 THEN -value ELSE value), 4)

----------------------------------------------------------------------------
(* MemoryChannel.                                                          *)

VfoMtQmb == [kind |-> "VfoMtQmb", n |-> 0, lower_upper |-> "-"]
Mem(ch) == [kind |-> "Mem", n |-> ch, lower_upper |-> "-"]
Pms(slot, lu) == [kind |-> "Pms", n |-> slot, lower_upper |-> lu]
FiveMHzBand(band) == [kind |-> "FiveMHzBand", n |-> band, lower_upper |-> "-"]
EmergencyChannel == [kind |-> "EmergencyChannel", n |-> 0, lower_upper |-> "-"]

\* str::parse::<u8>, the digits from item i on: a larger value than 255 fails.
RECURSIVE u8_digits(_, _, _)
u8_digits(s, i, acc) ==
    IF i > Len(s) THEN Ok(acc)
    ELSE LET n == to_digit(s[i])
         IN  IF n < 0 \/ s[i] > 255 THEN Err
             ELSE IF acc * 10 + n > 255 THEN Err
             ELSE u8_digits(s, i + 1, acc * 10 + n)

\* str::parse::<u8>: one leading '+' is accepted, '-' is not, no digit fails.
u8_from_str(s) ==
    IF s = <<>> THEN Err
    ELSE IF Len(s) = 1 /\ s[1] \in {Asc("+"), Asc("-")} THEN Err
    ELSE IF s[1] = Asc("+") THEN u8_digits(s, 2, 0)
    ELSE u8_digits(s, 1, 0)

\* The four characters after the first, each `as u8`.
tail4_as_u8(item) == <<AsU8(item[2]), AsU8(item[3]), AsU8(item[4]), AsU8(item[5])>>

MemoryChannel_try_from(item) ==
    IF item = Str(<<"0", "0", "0", "0", "0">>) THEN Ok(VfoMtQmb)
    ELSE IF item[1] = Asc("0") THEN
        LET ch == buf4_to_u16(tail4_as_u8(item))
        IN  IF IsOk(ch) THEN Ok(Mem(ch.val)) ELSE Err
    ELSE IF item[1] = Asc("P") THEN
        LET slot == u8_from_str(<<item[3], item[4]>>)
        IN  IF ~IsOk(slot) THEN Err
            ELSE IF item[5] = Asc("L") THEN Ok(Pms(slot.val, "Lower"))
            ELSE IF item[5] = Asc("U") THEN Ok(Pms(slot.val, "Upper"))
            ELSE Err
    ELSE IF item[1] = Asc("5") THEN
        LET band == buf4_to_u16(tail4_as_u8(item))
        IN  IF IsOk(band) THEN Ok(FiveMHzBand(band.val % 256)) ELSE Err
    ELSE IF item = Str(<<"E", "M", "G", "C", "H">>) THEN Ok(EmergencyChannel)
    ELSE Err

\* chars[0] .. chars[4] of a formatted text: a shorter text panics.
first5(s) == IF Len(s) < 5 THEN Panic ELSE Ok(SubSeq(s, 1, 5))

pms_suffix_swapped(lower_upper) ==
    IF lower_upper = "Lower" THEN Asc("U") ELSE Asc("L")

pms_suffix(lower_upper) ==
    IF lower_upper = "Lower" THEN Asc("L") ELSE Asc("U")

MemoryChannel_to_chars(self) ==
    IF self.kind = "VfoMtQmb" THEN Ok(Str(<<"0", "0", "0", "0", "0">>))
    ELSE IF self.kind = "Mem" THEN first5(ZeroPad(DecDigits(self.n), 5))
    ELSE IF self.kind = "Pms" THEN
        first5((Str(<<"P", "-">>) \o ZeroPad(DecDigits(self.n), 2))
                  \o <<pms_suffix(self.lower_upper)>>)
    ELSE IF self.kind = "FiveMHzBand" THEN
        \* (band / 10) as char, (band % 10) as char: the code points 0..25
        Ok(Str(<<"5", "0", "0">>) \o <<self.n \div 10, self.n % 10>>)
    ELSE Ok(Str(<<"E", "M", "G", "C", "H">>))

----------------------------------------------------------------------------
(* The single-character enumerations of ftx1.rs.                           *)

\* A match on '0', '1', ...: names[k + 1] for the character '0' + k.
enum_from_digit(names, item) ==
    LET k == item - Asc("0")
    IN  IF 0 <= k /\ k < Len(names) THEN Ok(names[k + 1]) ELSE Err

RxClarifierOnOff_try_from(item) ==
    enum_from_digit(<<"RxClarifierOff", "RxClarifierOn">>, item)

TxClarifierOnOff_try_from(item) ==
    enum_from_digit(<<"TxClarifierOff", "TxClarifierOn">>, item)

ChType_try_from(item) ==
    enum_from_digit(<<"Vfo", "MemoryChannel", "MemoryTune", "Qmb", "Reserved4", "Pms">>,
                    item)

Shift_try_from(item) ==
    enum_from_digit(<<"Simplex", "PlusShift", "MinusShift">>, item)

SqlType_try_from(item) ==
    enum_from_digit(<<"CtcssOff", "CtcssEncDec", "CtcssEnc", "Dcs", "PrFreq", "RevTone">>,
                    item)

ModeNames ==
    <<"Lsb", "Usb", "CwU", "Fm", "Am", "RttyL", "CwL", "DataL", "RttyU",
      "DataFm", "FmN", "DataU", "AmN", "Psk", "DataFmN">>

ModeCodes ==
    Str(<<"1", "2", "3", "4", "5", "6", "7", "8", "9", "A", "B", "C", "D", "E", "F">>)

Mode_try_from(item) ==
    IF \E i \in DOMAIN ModeCodes : ModeCodes[i] = item
      THEN Ok(ModeNames[CHOOSE i \in DOMAIN ModeCodes : ModeCodes[i] = item])
      ELSE Err

\* impl TryFrom<&u8> for Side: the match is on the numbers 0 and 1.
Side_try_from(item) ==
    IF item = 0 THEN Ok("Main") ELSE IF item = 1 THEN Ok("Sub") ELSE Err

\* impl TryFrom<&u8> for ToneType: the match is on the numbers 0 and 1.
ToneType_try_from(item) ==
    IF item = 0 THEN Ok("Ctcss") ELSE IF item = 1 THEN Ok("Dcs") ELSE Err

----------------------------------------------------------------------------
(* The commands of ftx1.rs.                                                *)

\* The outcome of results taken in order with `?` or unwrap: the first that
\* is not Ok, or Ok(value) when all are.
RECURSIVE first_failure(_, _, _)
first_failure(rs, i, value) ==
    IF i > Len(rs) THEN Ok(value)
    ELSE IF IsOk(rs[i]) THEN first_failure(rs, i + 1, value)
    ELSE rs[i]

\* Result::unwrap: Err panics.
unwrap(r) == IF IsOk(r) THEN r ELSE Panic

\* buffer[i] and buffer[a..b] panic past the end; `last` is the largest
\* (0-based) index the decoder reads.
in_bounds(buffer, last) == Len(buffer) > last

\* parsers::buf3_to_u8, which ftx1.rs imports and parsers.rs does not hold:
\* three decimal digits, failing on a length other than 3, on a non-digit and
\* on a value above the u8 range.
parsers_buf3_to_u8(buffer) ==
    IF Len(buffer) # 3 THEN Err
    ELSE LET r == digit_loop(buffer, 3, 1, 0)
         IN  IF IsOk(r) /\ r.val > 255 THEN Err ELSE r

CmdId_decode(buffer) ==
    IF ~IsOk(is_reply_ok(CMD_ID, buffer)) THEN Err
    ELSE IF ~in_bounds(buffer, 5) THEN Panic
    ELSE buf4_to_u16(SubSeq(buffer, 3, 6))

\* CmdMr::decode reading the shift one byte early, at buffer[27].
FTX1_ID == 840

\* CmdId::validate accepting every id up to FTX1_ID.
CmdId_validate_up_to(id) == IF id <= FTX1_ID THEN Ok(<<>>) ELSE Err

CmdId_validate(id) == IF id = FTX1_ID THEN Ok(<<>>) ELSE Err

CmdMr_decode_shift_at_27(buffer, checks) ==
    IF ~IsOk(is_reply_ok(CMD_MR, buffer)) THEN Err
    ELSE IF ~in_bounds(buffer, 28) THEN Panic
    ELSE LET channel == MemoryChannel_try_from(SubSeq(buffer, 3, 7))
             frequency_hz == FrequencyHz_try_from_bytes(SubSeq(buffer, 8, 16))
             clarifier_offset_hz ==
                 ClarifierOffsetHz_try_from_bytes(SubSeq(buffer, 17, 21), checks)
             rx_clarifier_enabled == RxClarifierOnOff_try_from(buffer[22])
             tx_clarifier_enabled == TxClarifierOnOff_try_from(buffer[23])
             mode == Mode_try_from(buffer[24])
             ch_type == ChType_try_from(buffer[25])
             sql_type == SqlType_try_from(buffer[26])
             shift == Shift_try_from(buffer[28])
             fields == <<channel, frequency_hz, clarifier_offset_hz,
                         rx_clarifier_enabled, tx_clarifier_enabled, mode,
                         ch_type, sql_type, shift>>
         IN  IF \E i \in DOMAIN fields : ~IsOk(fields[i])
               THEN first_failure(fields, 1, <<>>)
               ELSE Ok([channel |-> channel.val,
                        frequency_hz |-> frequency_hz.val,
                        clarifier_offset_hz |-> clarifier_offset_hz.val,
                        rx_clarifier_enabled |-> rx_clarifier_enabled.val,
                        tx_clarifier_enabled |-> tx_clarifier_enabled.val,
                        mode |-> mode.val,
                        ch_type |-> ch_type.val,
                        sql_type |-> sql_type.val,
                        shift |-> shift.val])

CmdMr_decode(buffer, checks) ==
    IF ~IsOk(is_reply_ok(CMD_MR, buffer)) THEN Err
    ELSE IF ~in_bounds(buffer, 28) THEN Panic
    ELSE LET channel == MemoryChannel_try_from(SubSeq(buffer, 3, 7))
             frequency_hz == FrequencyHz_try_from_bytes(SubSeq(buffer, 8, 16))
             clarifier_offset_hz ==
                 ClarifierOffsetHz_try_from_bytes(SubSeq(buffer, 17, 21), checks)
             rx_clarifier_enabled == RxClarifierOnOff_try_from(buffer[22])
             tx_clarifier_enabled == TxClarifierOnOff_try_from(buffer[23])
             mode == Mode_try_from(buffer[24])
             ch_type == ChType_try_from(buffer[25])
             sql_type == SqlType_try_from(buffer[26])
             shift == Shift_try_from(buffer[29])
             fields == <<channel, frequency_hz, clarifier_offset_hz,
                         rx_clarifier_enabled, tx_clarifier_enabled, mode,
                         ch_type, sql_type, shift>>
         IN  IF \E i \in DOMAIN fields : ~IsOk(fields[i])
               THEN first_failure(fields, 1, <<>>)
               ELSE Ok([channel |-> channel.val,
                        frequency_hz |-> frequency_hz.val,
                        clarifier_offset_hz |-> clarifier_offset_hz.val,
                        rx_clarifier_enabled |-> rx_clarifier_enabled.val,
                        tx_clarifier_enabled |-> tx_clarifier_enabled.val,
                        mode |-> mode.val,
                        ch_type |-> ch_type.val,
                        sql_type |-> sql_type.val,
                        shift |-> shift.val])

\* CmdMt::decode without its call of is_reply_ok.
CmdMt_decode_unvalidated(buffer) ==
    IF ~in_bounds(buffer, 18) THEN Panic
    ELSE Ok(SubSeq(buffer, 8, 19))

CmdMt_decode(buffer) ==
    IF ~IsOk(is_reply_ok(CMD_MT, buffer)) THEN Err
    ELSE IF ~in_bounds(buffer, 18) THEN Panic
    ELSE Ok(SubSeq(buffer, 8, 19))

CmdMc_decode(buffer) ==
    IF ~IsOk(is_reply_ok(CMD_MC, buffer)) THEN Err
    ELSE IF ~in_bounds(buffer, 7) THEN Panic
    ELSE LET side == unwrap(Side_try_from(buffer[3]))
             channel == unwrap(MemoryChannel_try_from(SubSeq(buffer, 4, 8)))
         IN  IF IsOk(side) /\ IsOk(channel)
               THEN Ok([side |-> side.val, channel |-> channel.val])
               ELSE Panic

CmdCn_decode(buffer) ==
    IF ~IsOk(is_reply_ok(CMD_CN, buffer)) THEN Err
    ELSE IF ~in_bounds(buffer, 6) THEN Panic
    ELSE LET side == unwrap(Side_try_from(buffer[3]))
             tone_type == unwrap(ToneType_try_from(buffer[4]))
             tone_code == unwrap(parsers_buf3_to_u8(SubSeq(buffer, 5, 7)))
         IN  IF IsOk(side) /\ IsOk(tone_type) /\ IsOk(tone_code)
               THEN Ok([side |-> side.val, tone_type |-> tone_type.val,
                        tone_code |-> tone_code.val])
               ELSE Panic

----------------------------------------------------------------------------
(* The enumerations, parsers and commands of ftdx10.rs.                    *)

Band_code(band) == IF band = "Main" THEN Asc("0") ELSE Asc("1")

Band_try_from(item) ==
    IF item = Asc("0") THEN Ok("Main")
    ELSE IF item = Asc("1") THEN Ok("Sub")
    ELSE Err

\* Mode::code numbering all fifteen modes '1', '2', ... past '9'.
ftdx10_Mode_code_decimal(mode) ==
    Asc("0") + (CHOOSE i \in DOMAIN ModeNames : ModeNames[i] = mode)

ftdx10_Mode_code(mode) ==
    ModeCodes[CHOOSE i \in DOMAIN ModeNames : ModeNames[i] = mode]

ftdx10_Mode_try_from(item) ==
    IF \E i \in DOMAIN ModeCodes : ModeCodes[i] = item
      THEN Ok(ModeNames[CHOOSE i \in DOMAIN ModeCodes : ModeCodes[i] = item])
      ELSE Err

\* u8 arithmetic: an overflow panics with overflow checks and wraps without.
u8_overflow(x, checks) ==
    IF x <= 255 THEN Ok(x) ELSE IF checks THEN Panic ELSE Ok(x % 256)

\* result += n as u8 * (10u8.pow(2 - i)), for at most the first 3 bytes.
RECURSIVE ftdx10_buf3_loop(_, _, _, _)
ftdx10_buf3_loop(buffer, i, acc, checks) ==
    IF i > 3 \/ i > Len(buffer) THEN Ok(acc)
    ELSE LET n == to_digit(buffer[i])
         IN  IF n < 0 THEN Err
             ELSE LET term == u8_overflow(n * Pow10(3 - i), checks)
                  IN  IF ~IsOk(term) THEN Panic
                      ELSE LET sum == u8_overflow(acc + term.val, checks)
                           IN  IF ~IsOk(sum) THEN Panic
                               ELSE ftdx10_buf3_loop(buffer, i + 1, sum.val, checks)

ftdx10_buf3_to_u8(buffer, checks) == ftdx10_buf3_loop(buffer, 1, 0, checks)

\* No length test here: at most the first 4 bytes are read.
ftdx10_buf4_to_u16(buffer) == digit_loop(buffer, 4, 1, 0)

\* base_10_chars_3 taking the tens from n instead of n % 100.
base_10_chars_3_tens_of_n(n) ==
    <<(n - (n % 100)) \div 100 + Asc("0"),
      (n - (n % 10)) \div 10 + Asc("0"),
      (n % 10) + Asc("0")>>

base_10_chars_3(n) ==
    LET n1 == n % 100
        n2 == n1 % 10
    IN  <<(n - (n % 100)) \div 100 + Asc("0"),
          (n1 - (n1 % 10)) \div 10 + Asc("0"),
          n2 + Asc("0")>>

ftdx10_CmdMd_set(band, mode) ==
    ftdx10_tx_buffer(ftdx10_CMD_MD, Some(<<Band_code(band), ftdx10_Mode_code(mode)>>))

ftdx10_CmdMd_decode(buffer) ==
    IF ~IsOk(ftdx10_is_reply_ok(ftdx10_CMD_MD, buffer)) THEN Err
    ELSE IF ~in_bounds(buffer, 3) THEN Panic
    ELSE LET band == Band_try_from(buffer[3])
             mode == ftdx10_Mode_try_from(buffer[4])
         IN  IF IsOk(band) /\ IsOk(mode)
               THEN Ok([band |-> band.val, mode |-> mode.val])
               ELSE Err

ftdx10_CmdId_decode(buffer) ==
    IF ~IsOk(ftdx10_is_reply_ok(ftdx10_CMD_ID, buffer)) THEN Err
    ELSE IF ~in_bounds(buffer, 5) THEN Panic
    ELSE ftdx10_buf4_to_u16(SubSeq(buffer, 3, 6))

ftdx10_CmdId_validate(id) == IF id = 761 THEN Ok(<<>>) ELSE Err

ftdx10_CmdPc_set(power) ==
    IF ~(5 <= power /\ power <= 100) THEN Err
    ELSE ftdx10_tx_buffer(ftdx10_CMD_PC, Some(base_10_chars_3(power)))

ftdx10_CmdPc_decode(buffer, checks) ==
    IF ~IsOk(ftdx10_is_reply_ok(ftdx10_CMD_PC, buffer)) THEN Err
    ELSE IF ~in_bounds(buffer, 4) THEN Panic
    ELSE ftdx10_buf3_to_u8(SubSeq(buffer, 3, 5), checks)

ftdx10_CmdTx_decode(buffer) ==
    IF ~IsOk(ftdx10_is_reply_ok(ftdx10_CMD_TX, buffer)) THEN Err
    ELSE IF ~in_bounds(buffer, 2) THEN Panic
    ELSE Ok(buffer[3] # Asc("0"))

----------------------------------------------------------------------------
(* main.rs: what read_radio_data does for one channel.                     *)

ModeTexts ==
    <<"LSB", "USB", "CW-U", "FM", "AM", "RTTY-L", "CW-L", "DATA-L", "RTTY-U",
      "DATA-FM", "FM-N", "DATA-U", "AM-N", "PSK", "DATA-FM-N">>

Mode_fmt(mode) == ModeTexts[CHOOSE i \in DOMAIN ModeNames : ModeNames[i] = mode]

\* The CsvRecord built from the loop's channel number, the decoded MemoryRead
\* and read_tag's answer.
csv_record(ch, m, tag) ==
    [channel |-> unwrap(MemoryChannel_to_chars(Mem(ch))).val,
     tag |-> tag,
     freq |-> m.frequency_hz,
     clarifier_offset_hz |-> m.clarifier_offset_hz,
     rx_clarifier_enabled |-> m.rx_clarifier_enabled,
     tx_clarifier_enabled |-> m.tx_clarifier_enabled,
     mode |-> Mode_fmt(m.mode),
     ch_type |-> m.ch_type,
     tone |-> m.sql_type,
     shift |-> m.shift]

CmdId_read == tx_buffer(CMD_ID, None).val

CmdMr_read(channel) ==
    tx_buffer(CMD_MR, Some(unwrap(MemoryChannel_to_chars(channel)).val)).val

CmdMt_read(channel) ==
    tx_buffer(CMD_MT, Some(unwrap(MemoryChannel_to_chars(channel)).val)).val

RX_BUFFER_SIZE == 255

\* vec![0; RX_BUFFER_SIZE]
rx_initial == Fill(0, RX_BUFFER_SIZE)

\* port.read filled the first n bytes; buffer.truncate(n).
read_ok(buffer, bytes) ==
    SubSeq(bytes \o SubSeq(buffer, Len(bytes) + 1, Len(buffer)), 1, Len(bytes))

\* The TimedOut arm emptying the buffer.
read_timed_out_emptied(buffer) == <<>>

\* The TimedOut arm: break, the buffer as it is.
read_timed_out(buffer) == buffer

\* The loop of cat_send leaving only on a read that succeeded.
after_read_ok_only(outcome) == IF outcome = "ok" THEN "returned" ELSE "read"

\* The loop of cat_send: break on Ok(n) and on TimedOut, go round otherwise.
after_read(outcome) ==
    IF outcome \in {"ok", "timed_out"} THEN "returned" ELSE "read"

\* read_validate_id after its cat_send: Err of the decode is returned with
\* `?`; the verdict of validate is printed and Ok(()) returned.
read_validate_id(buffer) ==
    LET id == CmdId_decode(buffer)
    IN  IF ~IsOk(id) THEN id
        ELSE Ok(IF IsOk(CmdId_validate(id.val)) THEN "found" ELSE "cant_connect")

\* read_tag unwrapping the decode.
read_tag_unwrap(buffer) ==
    LET d == CmdMt_decode(buffer)
    IN  IF IsOk(d) THEN Ok(Some(d.val)) ELSE Panic

\* read_tag after its cat_send: d.ok().
read_tag(buffer) ==
    LET d == CmdMt_decode(buffer)
    IN  IF d = Panic THEN Panic
        ELSE IF IsOk(d) THEN Ok(Some(d.val)) ELSE Ok(None)

\* The match on read_mem's answer going on to read_tag in every case.
after_read_mem_always_tag(m) == "read_tag"

\* The match on read_mem's answer: Ok(m) goes on to read_tag, Err(_) => ()
\* to the next channel.
after_read_mem(m) == IF IsOk(m) THEN "read_tag" ELSE "for"

\* The body of `for ch in 1..=CHANNELS`, given the MR reply read_mem got:
\* the record serialized, or none when read_mem returned Err.
read_radio_data_channel(ch, mr_reply, tag, checks) ==
    LET mem == CmdMr_decode(mr_reply, checks)
    IN  IF mem = Panic THEN Panic
        ELSE IF IsOk(mem) THEN Ok(Some(csv_record(ch, mem.val, tag)))
        ELSE Ok(None)

----------------------------------------------------------------------------
(* Inputs.                                                                 *)

\* Reply buffers: a head of at most MaxHead bytes over the command's own
\* mnemonic bytes, the terminator and a digit, then a run of digits.
MaxHead == 3
\* The run of digits is at most read_params + PadSlack bytes long.
PadSlack == 1

ReplyBuffers(cmd) ==
    { h \o Fill(Asc("0"), k) :
        h \in SeqsOf({cmd.code[1], cmd.code[2], Asc(";"), Asc("0")}, 0, MaxHead),
        k \in 0..(cmd.read_params + PadSlack) }

\* Parameter characters: a digit, a letter, and U+013B whose low byte is ';'.
ParamChars == {Asc("0"), Asc("A"), 256 + Asc(";")}
\* ftx1 parameter vectors hold at most MaxParams characters.
MaxParams == 4

ParamVecs(maxlen, chars) == {None} \cup {Some(p) : p \in SeqsOf(chars, 0, maxlen)}

\* u32 values: the band edges and their neighbours, 0, and values above the
\* bands up to 2^31 - 1, the largest integer TLC represents.
FreqSpread == 10
FreqEdges == {30000, 174000000, 400000000, 470000000}
U32Samples ==
    {0, 1, 7000000, 7123456, 432100000, 999999999, 1000000000, 2147483647}
        \cup {e + d : e \in FreqEdges, d \in (-FreqSpread)..FreqSpread}

\* The values a FrequencyHz holds: the constructor's, and Default's 0.
FrequencyValues == {0} \cup {v \in U32Samples : IsOk(FrequencyHz_try_from_u32(v))}

NonDigits == {Asc(" "), Asc("+"), Asc("/"), Asc(":"), Asc("a")}

\* A text, the text with one byte replaced, one byte less, one byte more.
Perturbed(t, bytes) ==
    {t, t \o <<Asc("0")>>}
        \cup (IF t = <<>> THEN {} ELSE {SubSeq(t, 1, Len(t) - 1)})
        \cup {[t EXCEPT ![i] = x] : i \in DOMAIN t, x \in bytes}

FrequencyTexts ==
    {<<>>} \cup UNION {Perturbed(FrequencyHz_fmt(v), NonDigits) : v \in U32Samples}

\* i16 values: the range's edges and their neighbours, and the type's ends.
ClarSpread == 10
I16Samples ==
    UNION {{e - d, e + d} : e \in {-9990, 0, 9990}, d \in 0..ClarSpread}
        \cup {I16_MIN + d : d \in 0..ClarSpread}
        \cup {I16_MAX - d : d \in 0..ClarSpread}
        \cup {-1234, -123, 123, 1234}

\* The values a ClarifierOffsetHz holds: every value its constructor returns.
ClarifierValues ==
    {v \in I16_MIN..I16_MAX :
        \E c \in BOOLEAN : IsOk(ClarifierOffsetHz_try_from_i16(v, c))}

ClarifierTexts ==
    {<<>>} \cup UNION {Perturbed(ClarifierOffsetHz_fmt(v),
                                 NonDigits \cup {Asc("?"), Asc("-"), Asc("0")}) :
                         v \in I16Samples}

\* The calls whose arithmetic can overflow, made under either build.
OverflowOps ==
    {"ClarifierOffsetHz_try_from_i16", "ClarifierOffsetHz_try_from_bytes",
     "CmdMr_decode", "ftdx10_CmdPc_decode", "read_radio_data_channel",
     "read_radio_data"}

\* MemoryChannel values: Mem(0..MaxMem), Pms slots 0..MaxSlot, 5 MHz bands
\* 0..MaxBand, and the largest values the fields' types hold.
MaxMem == 1000
MaxSlot == 51
MaxBand == 21

MemoryChannels ==
    {VfoMtQmb, EmergencyChannel}
        \cup {Mem(n) : n \in (0..MaxMem) \cup {9999, 10000, 65535}}
        \cup {Pms(n, lu) : n \in (0..MaxSlot) \cup {99, 100, 255},
                           lu \in {"Lower", "Upper"}}
        \cup {FiveMHzBand(n) : n \in (0..MaxBand) \cup {99, 255}}

\* 5-character texts: the characters that matter at each position, and
\* every text to_chars produces.
ChannelTexts ==
    {<<c1, c2, c3, c4, c5>> :
        c1 \in {Asc(c) : c \in {"0", "1", "5", "E", "P"}},
        c2 \in {Asc(c) : c \in {"0", "1", "9", "-", "M"}},
        c3 \in {Asc(c) : c \in {"0", "1", "5", "9", "+", "-", "G", "a"}},
        c4 \in {Asc(c) : c \in {"0", "1", "5", "9", "+", " ", "C"}},
        c5 \in {Asc(c) : c \in {"0", "1", "9", "L", "U", "H"}}}
    \cup {MemoryChannel_to_chars(v).val : v \in MemoryChannels}

Ftx1ReplyBuffers == UNION {ReplyBuffers(d) : d \in Ftx1Cmds}
Ftdx10ReplyBuffers == UNION {ReplyBuffers(d) : d \in Ftdx10Cmds}
Ftx1ParamVecs == ParamVecs(MaxParams, ParamChars)
Ftdx10ParamVecs == ParamVecs(HEAPLESS_CAP, {Asc("0"), Asc("A")})

\* Well-formed and nearly well-formed replies, field by field.  The bytes 0
\* and 1 stand beside the characters '0' and '1' where a decoder matches on
\* a raw byte.
Terminator == <<Asc(";")>>

MrChannelTexts == {Str(<<"0", "0", "0", "0", "1">>), Str(<<"P", "-", "0", "1", "L">>),
                   Str(<<"E", "M", "G", "C", "a">>)}
MrFrequencyTexts == {FrequencyHz_fmt(7000000), FrequencyHz_fmt(432100000),
                     FrequencyHz_fmt(0)}
MrClarifierTexts == {Str(<<"+", "0", "0", "0", "0">>), Str(<<"-", "1", "2", "3", "4">>),
                     Str(<<"+", "9", "9", "9", "9">>)}

MrReplies ==
    {CMD_MR.code \o ch \o f \o c \o <<rx, tx, md, ct, sq, r1, r2, sh>> \o Terminator :
        ch \in MrChannelTexts, f \in MrFrequencyTexts, c \in MrClarifierTexts,
        rx \in {Asc("0"), Asc("2")}, tx \in {Asc("1"), Asc("2")},
        md \in {Asc("1"), Asc("F"), Asc("0")}, ct \in {Asc("5"), Asc("6")},
        sq \in {Asc("0"), Asc("6")}, r1 \in {Asc("0"), Asc("9")},
        r2 \in {Asc("0"), Asc(";")}, sh \in {Asc("2"), Asc("3")}}

IdReplies ==
    {Str(<<"I", "D">>) \o d \o Terminator :
        d \in {Str(<<"0", "8", "4", "0">>), Str(<<"0", "7", "6", "1">>),
               Str(<<"9", "9", "9", "9">>), Str(<<"0", "8", "a", "0">>)}}

MtReplies ==
    {CMD_MT.code \o ch \o Fill(t, 12) \o Terminator :
        ch \in MrChannelTexts, t \in {Asc(" "), Asc("A"), Asc(";")}}

SideBytes == {0, 1, Asc("0"), Asc("1"), Asc("2")}

McReplies ==
    {CMD_MC.code \o <<sd>> \o ch \o Terminator :
        sd \in SideBytes, ch \in MrChannelTexts \cup {Str(<<"0", "0", "0", "0", "?">>)}}

ToneCodeTexts ==
    {Str(<<"0", "0", "0">>), Str(<<"0", "1", "2">>), Str(<<"2", "5", "5">>),
     Str(<<"2", "5", "6">>), Str(<<"9", "9", "9">>), Str(<<"0", "a", "0">>)}

CnReplies ==
    {CMD_CN.code \o <<sd, tt>> \o tc \o Terminator :
        sd \in SideBytes, tt \in SideBytes, tc \in ToneCodeTexts}

Bands == {"Main", "Sub"}
Modes == Range(ModeNames)

MdReplies ==
    {ftdx10_CMD_MD.code \o <<b, m>> \o Terminator :
        b \in {Asc("0"), Asc("1"), Asc("2"), Asc("A"), 0},
        m \in Range(ModeCodes) \cup {Asc("0"), Asc("G"), Asc("a"), Asc(":")}}

DigitChars == {Asc("0") + d : d \in 0..9}

PcReplies ==
    {ftdx10_CMD_PC.code \o <<d1, d2, d3>> \o Terminator :
        d1 \in DigitChars, d2 \in DigitChars, d3 \in DigitChars}
    \cup {ftdx10_CMD_PC.code \o [Str(<<"0", "5", "0">>) EXCEPT ![i] = x] \o Terminator :
            i \in 1..3, x \in NonDigits}

TxReplies ==
    {ftdx10_CMD_TX.code \o <<t>> \o Terminator : t \in {Asc("0"), Asc("1"), Asc("2")}}

U8Values == 0..255

\* Texts for the unsigned 4-digit parser.
U16Texts ==
    {<<>>} \cup UNION {Perturbed(ZeroPad(DecDigits(v), 4), NonDigits) :
                         v \in {0, 1, 761, 840, 1234, 9999}}

\* Texts for the signed 5-digit parser: magnitudes around the ends of the
\* i16 range under the signs '+', '-' and a byte that is neither.
I16Magnitudes ==
    {0, 15, 123, 9999, 10000, 99999}
        \cup {I16_MAX + d : d \in (-ClarSpread)..ClarSpread}

I16Texts ==
    {Str(<<"0", "0", "0", "1", "5">>)}
        \cup UNION {Perturbed(<<sg>> \o ZeroPad(DecDigits(m), 5), NonDigits) :
                      sg \in {Asc("+"), Asc("-"), Asc("?")}, m \in I16Magnitudes}

\* u16 ids: 0..MaxId and the values around the middle and the end of the
\* type's range.
MaxId == 1023
U16Ids == (0..MaxId) \cup {32767, 32768, 65534, 65535}

\* One channel of read_radio_data: the first and the last channel number, an
\* MR reply, and read_tag's answer.
CHANNELS == 100

ChannelReads ==
    {[ch |-> c, mr_reply |-> b, tag |-> t] :
        c \in {1, CHANNELS},
        b \in {r \in MrReplies : r[27] = Asc("0") /\ r[28] = Asc("0")},
        t \in {None, Some(Fill(Asc("A"), 12))}}

\* What the port may deliver to one read of each exchange: well-formed
\* replies, a reply with a bad field, the first bytes only, and nothing.
IdRunReplies ==
    IdReplies \cup {<<>>, Str(<<"I", "D", "0", "8">>)}

MrRunReply(f, c, md) ==
    ((CMD_MR.code \o Str(<<"0", "0", "0", "0", "1">>)) \o f \o c)
        \o <<Asc("0"), Asc("1"), md, Asc("5"), Asc("0"), Asc("0"), Asc("0"), Asc("2")>>
        \o Terminator

MrRunReplies ==
    {MrRunReply(FrequencyHz_fmt(7000000), Str(<<"+", "0", "0", "0", "0">>), Asc("1")),
     MrRunReply(FrequencyHz_fmt(432100000), Str(<<"-", "1", "2", "3", "4">>), Asc("F")),
     MrRunReply(FrequencyHz_fmt(0), Str(<<"+", "0", "0", "0", "0">>), Asc("1")),
     Str(<<"M", "R", "0", "0", "0">>),
     <<>>}

MtRunReplies ==
    {(CMD_MT.code \o Str(<<"0", "0", "0", "0", "1">>)) \o Fill(Asc("A"), 12) \o Terminator,
     Str(<<"M", "T", "0", "0", "0">>),
     <<>>}

\* A read that fails with another error kind is counted up to MaxReadErrors.
MaxReadErrors == 2

Ops ==
    {"read_radio_data", "CmdId_validate", "ftdx10_CmdId_validate", "buf4_to_u16", "buf9_to_u32", "buf5_to_i16", "read_radio_data_channel", "CmdId_decode", "CmdMr_decode", "CmdMt_decode", "CmdMc_decode", "CmdCn_decode",
     "ftdx10_CmdId_decode", "ftdx10_CmdMd_decode", "ftdx10_CmdPc_decode",
     "ftdx10_CmdTx_decode", "ftdx10_CmdMd_set", "ftdx10_CmdPc_set", "buf4_to_i16",
     "is_reply_ok", "ftdx10_is_reply_ok", "tx_buffer", "ftdx10_tx_buffer",
     "FrequencyHz_try_from_u32", "FrequencyHz_try_from_bytes", "FrequencyHz_fmt",
     "ClarifierOffsetHz_try_from_i16", "ClarifierOffsetHz_try_from_bytes",
     "ClarifierOffsetHz_fmt", "MemoryChannel_try_from", "MemoryChannel_to_chars"}

\* The inputs each function is called with.
Inputs(o) ==
    CASE o = "is_reply_ok" ->
           {[cmd |-> c, buf |-> b] : c \in Ftx1Cmds, b \in Ftx1ReplyBuffers}
      [] o = "ftdx10_is_reply_ok" ->
           {[cmd |-> c, buf |-> b] : c \in Ftdx10Cmds, b \in Ftdx10ReplyBuffers}
      [] o = "tx_buffer" ->
           {[cmd |-> c, params |-> p] : c \in Ftx1Cmds, p \in Ftx1ParamVecs}
      [] o = "ftdx10_tx_buffer" ->
           {[cmd |-> c, params |-> p] : c \in Ftdx10Cmds, p \in Ftdx10ParamVecs}
      [] o = "FrequencyHz_try_from_u32" -> U32Samples
      [] o = "FrequencyHz_try_from_bytes" -> FrequencyTexts
      [] o = "FrequencyHz_fmt" -> FrequencyValues
      [] o = "ClarifierOffsetHz_try_from_i16" -> I16Samples
      [] o = "ClarifierOffsetHz_try_from_bytes" -> ClarifierTexts
      [] o = "ClarifierOffsetHz_fmt" -> ClarifierValues
      [] o = "MemoryChannel_try_from" -> ChannelTexts
      [] o = "MemoryChannel_to_chars" -> MemoryChannels
      [] o = "CmdId_decode" -> Ftx1ReplyBuffers \cup IdReplies
      [] o = "CmdMr_decode" -> Ftx1ReplyBuffers \cup MrReplies
      [] o = "CmdMt_decode" -> Ftx1ReplyBuffers \cup MtReplies
      [] o = "CmdMc_decode" -> Ftx1ReplyBuffers \cup McReplies
      [] o = "CmdCn_decode" -> Ftx1ReplyBuffers \cup CnReplies
      [] o = "ftdx10_CmdId_decode" -> Ftdx10ReplyBuffers \cup IdReplies
      [] o = "ftdx10_CmdMd_decode" -> Ftdx10ReplyBuffers \cup MdReplies
      [] o = "ftdx10_CmdPc_decode" -> Ftdx10ReplyBuffers \cup PcReplies
      [] o = "ftdx10_CmdTx_decode" -> Ftdx10ReplyBuffers \cup TxReplies
      [] o = "ftdx10_CmdMd_set" -> {[band |-> b, mode |-> m] : b \in Bands, m \in Modes}
      [] o = "ftdx10_CmdPc_set" -> U8Values
      [] o = "buf4_to_i16" -> ClarifierTexts
      [] o = "read_radio_data_channel" -> ChannelReads
      [] o = "buf4_to_u16" -> U16Texts
      [] o = "read_radio_data" -> {"cli"}
      [] o = "CmdId_validate" -> U16Ids
      [] o = "ftdx10_CmdId_validate" -> U16Ids
      [] o = "buf9_to_u32" -> FrequencyTexts
      [] o = "buf5_to_i16" -> I16Texts

----------------------------------------------------------------------------
(* The state machine.                                                      *)

\* read_radio_data is entered at "open"; a codec call leaves it at "none".
RunStart ==
    /\ rd = IF op = "read_radio_data" THEN "open" ELSE "none"
    /\ cs = "none"
    /\ loop_ch = 0
    /\ port_tx = <<>>
    /\ port_rx = <<>>
    /\ read_outcome = "none"
    /\ read_errors = 0
    /\ outstanding = FALSE
    /\ id_reported = "none"
    /\ csv_created = FALSE
    /\ loop_mem = NoResult
    /\ loop_tag = None
    /\ written = None

Init ==
    /\ pc = "call"
    /\ result = NoResult
    /\ op \in Ops
    /\ arg \in Inputs(op)
    /\ overflow_checks \in (IF op \in OverflowOps THEN BOOLEAN ELSE {TRUE})
    /\ RunStart

Return(r) ==
    /\ op # "read_radio_data"
    /\ result' = r
    /\ pc' = "return"
    /\ UNCHANGED <<op, arg, overflow_checks, run_vars>>

IsReplyOk ==
    /\ pc = "call" /\ op = "is_reply_ok"
    /\ Return(is_reply_ok(arg.cmd, arg.buf))

Ftdx10IsReplyOk ==
    /\ pc = "call" /\ op = "ftdx10_is_reply_ok"
    /\ Return(ftdx10_is_reply_ok(arg.cmd, arg.buf))

TxBuffer ==
    /\ pc = "call" /\ op = "tx_buffer"
    /\ Return(tx_buffer(arg.cmd, arg.params))

Ftdx10TxBuffer ==
    /\ pc = "call" /\ op = "ftdx10_tx_buffer"
    /\ Return(ftdx10_tx_buffer(arg.cmd, arg.params))

FrequencyFromU32 ==
    /\ pc = "call" /\ op = "FrequencyHz_try_from_u32"
    /\ Return(FrequencyHz_try_from_u32(arg))

FrequencyFromBytes ==
    /\ pc = "call" /\ op = "FrequencyHz_try_from_bytes"
    /\ Return(FrequencyHz_try_from_bytes(arg))

FrequencyDisplay ==
    /\ pc = "call" /\ op = "FrequencyHz_fmt"
    /\ Return(Ok(FrequencyHz_fmt(arg)))

ClarifierFromI16 ==
    /\ pc = "call" /\ op = "ClarifierOffsetHz_try_from_i16"
    /\ Return(ClarifierOffsetHz_try_from_i16(arg, overflow_checks))

ClarifierFromBytes ==
    /\ pc = "call" /\ op = "ClarifierOffsetHz_try_from_bytes"
    /\ Return(ClarifierOffsetHz_try_from_bytes(arg, overflow_checks))

ClarifierDisplay ==
    /\ pc = "call" /\ op = "ClarifierOffsetHz_fmt"
    /\ Return(Ok(ClarifierOffsetHz_fmt(arg)))

MemoryChannelFromChars ==
    /\ pc = "call" /\ op = "MemoryChannel_try_from"
    /\ Return(MemoryChannel_try_from(arg))

MemoryChannelToChars ==
    /\ pc = "call" /\ op = "MemoryChannel_to_chars"
    /\ Return(MemoryChannel_to_chars(arg))

CmdIdDecode ==
    /\ pc = "call" /\ op = "CmdId_decode"
    /\ Return(CmdId_decode(arg))

CmdMrDecode ==
    /\ pc = "call" /\ op = "CmdMr_decode"
    /\ Return(CmdMr_decode(arg, overflow_checks))

CmdMtDecode ==
    /\ pc = "call" /\ op = "CmdMt_decode"
    /\ Return(CmdMt_decode(arg))

CmdMcDecode ==
    /\ pc = "call" /\ op = "CmdMc_decode"
    /\ Return(CmdMc_decode(arg))

CmdCnDecode ==
    /\ pc = "call" /\ op = "CmdCn_decode"
    /\ Return(CmdCn_decode(arg))

Ftdx10CmdIdDecode ==
    /\ pc = "call" /\ op = "ftdx10_CmdId_decode"
    /\ Return(ftdx10_CmdId_decode(arg))

Ftdx10CmdMdDecode ==
    /\ pc = "call" /\ op = "ftdx10_CmdMd_decode"
    /\ Return(ftdx10_CmdMd_decode(arg))

Ftdx10CmdPcDecode ==
    /\ pc = "call" /\ op = "ftdx10_CmdPc_decode"
    /\ Return(ftdx10_CmdPc_decode(arg, overflow_checks))

Ftdx10CmdTxDecode ==
    /\ pc = "call" /\ op = "ftdx10_CmdTx_decode"
    /\ Return(ftdx10_CmdTx_decode(arg))

Ftdx10CmdMdSet ==
    /\ pc = "call" /\ op = "ftdx10_CmdMd_set"
    /\ Return(ftdx10_CmdMd_set(arg.band, arg.mode))

Ftdx10CmdPcSet ==
    /\ pc = "call" /\ op = "ftdx10_CmdPc_set"
    /\ Return(ftdx10_CmdPc_set(arg))

Buf4ToI16 ==
    /\ pc = "call" /\ op = "buf4_to_i16"
    /\ Return(buf4_to_i16(arg))

ReadRadioDataChannel ==
    /\ pc = "call" /\ op = "read_radio_data_channel"
    /\ Return(read_radio_data_channel(arg.ch, arg.mr_reply, arg.tag, overflow_checks))

Buf4ToU16 ==
    /\ pc = "call" /\ op = "buf4_to_u16"
    /\ Return(buf4_to_u16(arg))

Buf9ToU32 ==
    /\ pc = "call" /\ op = "buf9_to_u32"
    /\ Return(buf9_to_u32(arg))

Buf5ToI16 ==
    /\ pc = "call" /\ op = "buf5_to_i16"
    /\ Return(buf5_to_i16(arg))

CmdIdValidate ==
    /\ pc = "call" /\ op = "CmdId_validate"
    /\ Return(CmdId_validate(arg))

Ftdx10CmdIdValidate ==
    /\ pc = "call" /\ op = "ftdx10_CmdId_validate"
    /\ Return(ftdx10_CmdId_validate(arg))

----------------------------------------------------------------------------
(* read_radio_data, step by step.                                          *)

call_vars == <<op, arg, overflow_checks>>

\* read_radio_data goes on at position pos, in cat_send at c.
Goes(pos, c) ==
    /\ rd' = pos
    /\ cs' = c
    /\ UNCHANGED <<pc, result, call_vars>>

\* read_radio_data ends: it returns r, or the process panics.
Ends(pos, r) ==
    /\ rd' = pos
    /\ cs' = "none"
    /\ pc' = "return"
    /\ result' = r
    /\ UNCHANGED call_vars

Panics == Ends("panicked", Panic)

\* serialport::new(..).open().expect(..), then read_validate_id's cat_send.
OpenPort ==
    /\ rd = "open"
    /\ \E opened \in BOOLEAN :
          IF opened THEN Goes("validate_id", "write") ELSE Panics
    /\ UNCHANGED <<loop_ch, port_tx, port_rx, read_outcome, read_errors, outstanding,
                   id_reported, csv_created, loop_mem, loop_tag, written>>

\* The frame the caller hands to cat_send.
Frame ==
    CASE rd = "validate_id" -> CmdId_read
      [] rd = "read_mem" -> CmdMr_read(Mem(loop_ch))
      [] rd = "read_tag" -> CmdMt_read(Mem(loop_ch))

Replies ==
    CASE rd = "validate_id" -> IdRunReplies
      [] rd = "read_mem" -> MrRunReplies
      [] rd = "read_tag" -> MtRunReplies

\* port.write(data).expect(..); let mut buffer = vec![0; RX_BUFFER_SIZE].
CatSendWrite ==
    /\ cs = "write"
    /\ \E sent \in BOOLEAN :
          IF sent
            THEN /\ Goes(rd, "read")
                 /\ port_tx' = Frame
                 /\ port_rx' = rx_initial
                 /\ outstanding' = TRUE
                 /\ read_outcome' = "none"
                 /\ read_errors' = 0
            ELSE /\ Panics
                 /\ UNCHANGED <<port_tx, port_rx, outstanding, read_outcome, read_errors>>
    /\ UNCHANGED <<loop_ch, id_reported, csv_created, loop_mem, loop_tag, written>>

\* port.read returns Ok(n): truncate and break.
CatSendReadOk ==
    /\ cs = "read"
    /\ \E bytes \in Replies : port_rx' = read_ok(port_rx, bytes)
    /\ read_outcome' = "ok"
    /\ Goes(rd, after_read("ok"))
    /\ outstanding' = (after_read("ok") = "read")
    /\ UNCHANGED <<loop_ch, port_tx, read_errors, id_reported, csv_created, loop_mem, loop_tag, written>>

\* port.read returns Err of kind TimedOut: break.
CatSendReadTimedOut ==
    /\ cs = "read"
    /\ port_rx' = read_timed_out(port_rx)
    /\ read_outcome' = "timed_out"
    /\ Goes(rd, after_read("timed_out"))
    /\ outstanding' = (after_read("timed_out") = "read")
    /\ UNCHANGED <<loop_ch, port_tx, read_errors, id_reported, csv_created, loop_mem, loop_tag, written>>

\* port.read returns another Err: eprintln and read again.
CatSendReadError ==
    /\ cs = "read"
    /\ read_outcome' = "error"
    /\ read_errors' = IF read_errors < MaxReadErrors THEN read_errors + 1
                      ELSE read_errors
    /\ Goes(rd, after_read("error"))
    /\ outstanding' = (after_read("error") = "read")
    /\ UNCHANGED <<loop_ch, port_tx, port_rx, id_reported, csv_created, loop_mem, loop_tag, written>>

\* read_validate_id(&mut *port)? once its cat_send has returned.
ValidateId ==
    /\ rd = "validate_id" /\ cs = "returned"
    /\ LET r == read_validate_id(port_rx)
       IN  IF IsOk(r)
             THEN Goes("create_csv", "none") /\ id_reported' = r.val
             ELSE /\ Ends(IF r = Panic THEN "panicked" ELSE "aborted", r)
                  /\ UNCHANGED id_reported
    /\ UNCHANGED <<loop_ch, port_tx, port_rx, read_outcome, read_errors, outstanding,
                   csv_created, loop_mem, loop_tag, written>>

\* csv::Writer::from_path(&cli.file).unwrap(); the loop starts at 1.
CreateCsv ==
    /\ rd = "create_csv"
    /\ \E created \in BOOLEAN :
          IF created
            THEN Goes("for", "none") /\ csv_created' = TRUE /\ loop_ch' = 1
            ELSE Panics /\ UNCHANGED <<csv_created, loop_ch>>
    /\ UNCHANGED <<port_tx, port_rx, read_outcome, read_errors, outstanding,
                   id_reported, loop_mem, loop_tag, written>>

\* for loop_ch in 1..=CHANNELS: the next channel's read_mem, or the loop's end.
ForNext ==
    /\ rd = "for"
    /\ IF loop_ch <= CHANNELS
         THEN /\ Goes("read_mem", "write")
              /\ loop_mem' = NoResult /\ loop_tag' = None /\ written' = None
         ELSE /\ Goes("flush", "none")
              /\ UNCHANGED <<loop_mem, loop_tag, written>>
    /\ UNCHANGED <<loop_ch, port_tx, port_rx, read_outcome, read_errors, outstanding,
                   id_reported, csv_created>>

\* read_mem's decode once its cat_send has returned, and the match on it.
ReadMem ==
    /\ rd = "read_mem" /\ cs = "returned"
    /\ LET m == CmdMr_decode(port_rx, overflow_checks)
       IN  /\ loop_mem' = m
           /\ IF m = Panic THEN Panics /\ UNCHANGED loop_ch
              ELSE IF after_read_mem(m) = "read_tag"
                THEN Goes("read_tag", "write") /\ UNCHANGED loop_ch
                ELSE Goes("for", "none") /\ loop_ch' = loop_ch + 1
    /\ UNCHANGED <<port_tx, port_rx, read_outcome, read_errors, outstanding,
                   id_reported, csv_created, loop_tag, written>>

\* read_tag's decode once its cat_send has returned.
ReadTag ==
    /\ rd = "read_tag" /\ cs = "returned"
    /\ LET t == read_tag(port_rx)
       IN  IF IsOk(t) THEN Goes("serialize", "none") /\ loop_tag' = t.val
           ELSE Panics /\ UNCHANGED loop_tag
    /\ UNCHANGED <<loop_ch, port_tx, port_rx, read_outcome, read_errors, outstanding,
                   id_reported, csv_created, loop_mem, written>>

\* wtr.serialize(&csv_record).unwrap() in the Ok(m) arm; the next channel.
Serialize ==
    /\ rd = "serialize" /\ IsOk(loop_mem)
    /\ \E serialized \in BOOLEAN :
          IF serialized
            THEN /\ Goes("for", "none")
                 /\ written' = Some(csv_record(loop_ch, loop_mem.val, loop_tag))
                 /\ loop_ch' = loop_ch + 1
            ELSE Panics /\ UNCHANGED <<written, loop_ch>>
    /\ UNCHANGED <<port_tx, port_rx, read_outcome, read_errors, outstanding,
                   id_reported, csv_created, loop_mem, loop_tag>>

\* wtr.flush().unwrap(); Ok(()).
Flush ==
    /\ rd = "flush"
    /\ \E flushed \in BOOLEAN :
          IF flushed THEN Ends("done", Ok(<<>>)) ELSE Panics
    /\ UNCHANGED <<loop_ch, port_tx, port_rx, read_outcome, read_errors, outstanding,
                   id_reported, csv_created, loop_mem, loop_tag, written>>

\* A read of cat_send that ends the call.
CatSendReadEnds == CatSendReadOk \/ CatSendReadTimedOut

RunNext ==
    \/ OpenPort
    \/ CatSendWrite
    \/ CatSendReadOk
    \/ CatSendReadTimedOut
    \/ CatSendReadError
    \/ ValidateId
    \/ CreateCsv
    \/ ForNext
    \/ ReadMem
    \/ ReadTag
    \/ Serialize
    \/ Flush

Next ==
    \/ RunNext
    \/ CmdIdValidate
    \/ Ftdx10CmdIdValidate
    \/ Buf4ToU16
    \/ Buf9ToU32
    \/ Buf5ToI16
    \/ ReadRadioDataChannel
    \/ CmdIdDecode
    \/ CmdMrDecode
    \/ CmdMtDecode
    \/ CmdMcDecode
    \/ CmdCnDecode
    \/ Ftdx10CmdIdDecode
    \/ Ftdx10CmdMdDecode
    \/ Ftdx10CmdPcDecode
    \/ Ftdx10CmdTxDecode
    \/ Ftdx10CmdMdSet
    \/ Ftdx10CmdPcSet
    \/ Buf4ToI16
    \/ IsReplyOk
    \/ Ftdx10IsReplyOk
    \/ TxBuffer
    \/ Ftdx10TxBuffer
    \/ FrequencyFromU32
    \/ FrequencyFromBytes
    \/ FrequencyDisplay
    \/ ClarifierFromI16
    \/ ClarifierFromBytes
    \/ ClarifierDisplay
    \/ MemoryChannelFromChars
    \/ MemoryChannelToChars

Spec == Init /\ [][Next]_vars

\* read_radio_data alone.  The program takes its next step when it has one,
\* and the port does not fail reads for ever: a read that ends the call
\* (data, or the 200 ms timeout) eventually happens.
RunInit == op = "read_radio_data" /\ Init

RunSpec ==
    /\ RunInit
    /\ [][RunNext]_vars
    /\ WF_vars(OpenPort \/ CatSendWrite \/ ValidateId \/ CreateCsv \/ ForNext
                  \/ ReadMem \/ ReadTag \/ Serialize \/ Flush)
    /\ WF_vars(CatSendReadEnds)

\* cat_send alone, from each of its calls in read_radio_data: the ID call,
\* and for every channel the MR call (the exchange before it having timed
\* out, or being the ID exchange for channel 1) and the MT call (the MR
\* reply having decoded).  The port does not fail reads for ever.
CatSendCall(k, pos) ==
    /\ rd = pos
    /\ cs = "write"
    /\ loop_ch = k
    /\ read_errors = 0
    /\ outstanding = FALSE
    /\ loop_tag = None
    /\ written = None
    /\ CASE pos = "validate_id" ->
              /\ port_tx = <<>> /\ port_rx = <<>>
              /\ read_outcome = "none"
              /\ id_reported = "none" /\ csv_created = FALSE
              /\ loop_mem = NoResult
         [] pos = "read_mem" ->
              /\ port_tx = IF k = 1 THEN CmdId_read ELSE CmdMr_read(Mem(k - 1))
              /\ port_rx = IF k = 1 THEN Str(<<"I", "D", "0", "8", "4", "0", ";">>)
                           ELSE rx_initial
              /\ read_outcome = IF k = 1 THEN "ok" ELSE "timed_out"
              /\ id_reported = "found" /\ csv_created = TRUE
              /\ loop_mem = NoResult
         [] pos = "read_tag" ->
              /\ port_tx = CmdMr_read(Mem(k))
              /\ port_rx \in {r \in MrRunReplies : IsOk(CmdMr_decode(r, overflow_checks))}
              /\ read_outcome = "ok"
              /\ id_reported = "found" /\ csv_created = TRUE
              /\ loop_mem = CmdMr_decode(port_rx, overflow_checks)

CatSendInit ==
    /\ pc = "call"
    /\ result = NoResult
    /\ op = "read_radio_data"
    /\ arg \in Inputs(op)
    /\ overflow_checks \in BOOLEAN
    /\ \/ CatSendCall(0, "validate_id")
       \/ \E k \in 1..CHANNELS : CatSendCall(k, "read_mem") \/ CatSendCall(k, "read_tag")

CatSendNext ==
    \/ CatSendWrite
    \/ CatSendReadOk
    \/ CatSendReadTimedOut
    \/ CatSendReadError

CatSendSpec ==
    /\ CatSendInit
    /\ [][CatSendNext]_vars
    /\ WF_vars(CatSendReadEnds)

----------------------------------------------------------------------------
(* C1: reply validation succeeds exactly when the buffer holds at least 3  *)
(* bytes, both mnemonic bytes and the terminator occur in it, and its      *)
(* length minus 3 is the descriptor's parameter count; any one of these    *)
(* failing makes it fail (ftx1 and ftdx10).                                *)
C1_ReplyOkIff ==
    (pc = "return" /\ op \in {"is_reply_ok", "ftdx10_is_reply_ok"}) =>
        LET b == arg.buf
            c == arg.cmd
        IN  IsOk(result) <=>
              /\ Len(b) >= 3
              /\ c.code[1] \in Range(b)
              /\ c.code[2] \in Range(b)
              /\ Len(b) - 3 = c.read_params
              /\ Asc(";") \in Range(b)

\* An MR reply of 30 bytes is accepted.
C1_Witness ==
    /\ pc = "return" /\ op = "is_reply_ok"
    /\ arg.cmd = CMD_MR /\ Len(arg.buf) = 30
    /\ IsOk(result)

(* C2: every frame the builder returns is the two mnemonic bytes, the      *)
(* parameter bytes in order, then the terminator ';' as the last byte, of  *)
(* length len(p) + 3 (ftx1 and the 8-byte ftdx10 builder).                 *)
C2_FrameShape ==
    (pc = "return" /\ op \in {"tx_buffer", "ftdx10_tx_buffer"} /\ IsOk(result)) =>
        LET p == arg.params.v
            f == result.val
        IN  /\ Len(f) = Len(p) + 3
            /\ f[1] = arg.cmd.code[1]
            /\ f[2] = arg.cmd.code[2]
            /\ \A i \in DOMAIN p : f[2 + i] = AsU8(p[i])
            /\ f[Len(f)] = Asc(";")

----------------------------------------------------------------------------
(* Reference notions the claims are stated with.                           *)

AllDigits(s) == \A i \in DOMAIN s : s[i] \in Asc("0")..Asc("9")

\* The number a text of decimal digits denotes.
RECURSIVE DecimalValue(_)
DecimalValue(s) ==
    IF s = <<>> THEN 0
    ELSE 10 * DecimalValue(SubSeq(s, 1, Len(s) - 1)) + (s[Len(s)] - Asc("0"))

\* Two results are the same outcome.
SameResult(a, b) == a.tag = b.tag /\ (a.tag = "Ok" => a.val = b.val)

InBand(v) ==
    \/ 30000 <= v /\ v < 174000000
    \/ 400000000 <= v /\ v < 470000000

(* C3: Frequency construction from a u32 succeeds exactly for              *)
(* 30_000 <= v < 174_000_000 or 400_000_000 <= v < 470_000_000: the four   *)
(* values just outside the bands fail, the four just inside succeed.       *)
C3_FrequencyRange ==
    (pc = "return" /\ op = "FrequencyHz_try_from_u32") =>
        /\ IsOk(result) <=> InBand(arg)
        /\ IsOk(result) => result.val = arg
        /\ ~IsOk(result) => IsErr(result)
        /\ arg \in {29999, 174000000, 399999999, 470000000} => IsErr(result)
        /\ arg \in {30000, 173999999, 400000000, 469999999} => IsOk(result)

\* The last value of the lower band is accepted.
C3_Witness ==
    /\ pc = "return" /\ op = "FrequencyHz_try_from_u32"
    /\ arg = 173999999 /\ IsOk(result)

(* C4: a legal Frequency encodes as exactly 9 zero-padded ASCII digits     *)
(* and decoding them returns the same Frequency; decoding fails for a      *)
(* length other than 9, a non-digit, or a value outside the bands.         *)
C4_FrequencyRoundTrip ==
    /\ (pc = "return" /\ op = "FrequencyHz_fmt" /\ InBand(arg)) =>
          /\ Len(result.val) = 9
          /\ AllDigits(result.val)
          /\ DecimalValue(result.val) = arg
          /\ SameResult(FrequencyHz_try_from_bytes(result.val), Ok(arg))
    /\ (pc = "return" /\ op = "FrequencyHz_try_from_bytes") =>
          /\ Len(arg) # 9 => IsErr(result)
          /\ ~AllDigits(arg) => IsErr(result)
          /\ (Len(arg) = 9 /\ AllDigits(arg) /\ ~InBand(DecimalValue(arg)))
                => IsErr(result)

\* 7_123_456 Hz is encoded with two leading zeros.
C4_Witness ==
    /\ pc = "return" /\ op = "FrequencyHz_fmt"
    /\ arg = 7123456 /\ result.val = Str(<<"0", "0", "7", "1", "2", "3", "4", "5", "6">>)

(* C5: a ClarifierOffset in [-9990, 9990] encodes as exactly 5 bytes, a    *)
(* sign '+' or '-' and 4 zero-padded digits (0 is "+0000", 123 is "+0123", *)
(* -123 is "-0123"), and decoding them returns the same value.             *)
C5_ClarifierRoundTrip ==
    (pc = "return" /\ op = "ClarifierOffsetHz_fmt" /\ arg \in -9990..9990) =>
        LET t == result.val
        IN  /\ Len(t) = 5
            /\ t[1] = (IF arg < 0 THEN Asc("-") ELSE Asc("+"))
            /\ AllDigits(Tail(t))
            /\ DecimalValue(Tail(t)) = (IF arg < 0 THEN -arg ELSE arg)
            /\ \A c \in BOOLEAN :
                  SameResult(ClarifierOffsetHz_try_from_bytes(t, c), Ok(arg))
            /\ arg = 0 => t = Str(<<"+", "0", "0", "0", "0">>)
            /\ arg = 123 => t = Str(<<"+", "0", "1", "2", "3">>)
            /\ arg = -123 => t = Str(<<"-", "0", "1", "2", "3">>)

\* -123 is encoded as "-0123".
C5_Witness ==
    /\ pc = "return" /\ op = "ClarifierOffsetHz_fmt"
    /\ arg = -123 /\ result.val = Str(<<"-", "0", "1", "2", "3">>)

(* C6: for every i16 value, -32768 included, ClarifierOffset construction  *)
(* succeeds exactly when -9990 <= v <= 9990, and every value with          *)
(* |v| > 9990 is rejected with the ordinary failure.                       *)
C6_ClarifierRange ==
    (pc = "return" /\ op = "ClarifierOffsetHz_try_from_i16") =>
        /\ IsOk(result) <=> (-9990 <= arg /\ arg <= 9990)
        /\ (arg < -9990 \/ arg > 9990) => IsErr(result)

\* The canonical 5 characters of a channel, as the claims give them.
CanonicalChars(v) ==
    IF v.kind = "VfoMtQmb" THEN Str(<<"0", "0", "0", "0", "0">>)
    ELSE IF v.kind = "Mem" THEN ZeroPad(DecDigits(v.n), 5)
    ELSE IF v.kind = "Pms" THEN
        (Str(<<"P", "-">>) \o ZeroPad(DecDigits(v.n), 2))
            \o <<IF v.lower_upper = "Lower" THEN Asc("L") ELSE Asc("U")>>
    ELSE IF v.kind = "FiveMHzBand" THEN
        Str(<<"5", "0", "0">>) \o ZeroPad(DecDigits(v.n), 2)
    ELSE Str(<<"E", "M", "G", "C", "H">>)

\* The channels C7 is about.
RoundTripChannel(v) ==
    \/ v.kind \in {"VfoMtQmb", "EmergencyChannel"}
    \/ v.kind = "Mem" /\ 1 <= v.n /\ v.n <= 999
    \/ v.kind = "Pms" /\ 1 <= v.n /\ v.n <= 50

(* C7: for VfoMtQmb, Mem(1..999), Pms(1..50, Lower|Upper) and              *)
(* EmergencyChannel, to_chars yields the canonical 5 characters ("00000",  *)
(* the 5-digit zero-padded n, "P-ssL"/"P-ssU", "EMGCH") and decoding them  *)
(* returns the original value.                                             *)
C7_ChannelRoundTrip ==
    (pc = "return" /\ op = "MemoryChannel_to_chars" /\ RoundTripChannel(arg)) =>
        /\ IsOk(result)
        /\ result.val = CanonicalChars(arg)
        /\ Len(result.val) = 5
        /\ SameResult(MemoryChannel_try_from(result.val), Ok(arg))

\* Pms(50, Upper) is encoded as "P-50U".
C7_Witness ==
    /\ pc = "return" /\ op = "MemoryChannel_to_chars"
    /\ arg = Pms(50, "Upper")
    /\ result = Ok(Str(<<"P", "-", "5", "0", "U">>))

(* C8: for n in 1..20, FiveMHzBand(n) encodes as '5','0','0' and the two   *)
(* ASCII decimal digits of n, and decoding that text returns               *)
(* FiveMHzBand(n).                                                         *)
C8_FiveMHzRoundTrip ==
    (/\ pc = "return" /\ op = "MemoryChannel_to_chars"
     /\ arg.kind = "FiveMHzBand" /\ 1 <= arg.n /\ arg.n <= 20) =>
        /\ IsOk(result)
        /\ result.val = CanonicalChars(arg)
        /\ SameResult(MemoryChannel_try_from(result.val), Ok(arg))

\* The dispatch C9 describes.
ReferenceDecode(item) ==
    LET rest == SubSeq(item, 2, 5)
    IN  IF item = Str(<<"0", "0", "0", "0", "0">>) THEN Ok(VfoMtQmb)
        ELSE IF item[1] = Asc("0") THEN
            IF AllDigits(rest) THEN Ok(Mem(DecimalValue(rest))) ELSE Err
        ELSE IF item[1] = Asc("P") THEN
            IF AllDigits(SubSeq(item, 3, 4)) /\ item[5] \in {Asc("L"), Asc("U")}
              THEN Ok(Pms(DecimalValue(SubSeq(item, 3, 4)),
                          IF item[5] = Asc("L") THEN "Lower" ELSE "Upper"))
              ELSE Err
        ELSE IF item[1] = Asc("5") THEN
            IF AllDigits(rest) THEN Ok(FiveMHzBand(DecimalValue(rest) % 256)) ELSE Err
        ELSE IF item = Str(<<"E", "M", "G", "C", "H">>) THEN Ok(EmergencyChannel)
        ELSE Err

(* C9: decoding any 5 characters equals the reference dispatch: "00000" is *)
(* VfoMtQmb; else a first '0' gives Mem of the 4 remaining decimal digits; *)
(* a first 'P' gives Pms with the slot read from positions 3-4 as exactly  *)
(* two decimal digits and position 5 'L' or 'U'; a first '5' gives         *)
(* FiveMHzBand of the 4 remaining digits modulo 256; "EMGCH" is            *)
(* EmergencyChannel; every other input fails.                              *)
C9_DecodeDispatch ==
    (pc = "return" /\ op = "MemoryChannel_try_from") =>
        SameResult(result, ReferenceDecode(arg))

(* C10: every decoded MemoryChannel is within its variant's range: a       *)
(* decoded Mem(n) has 1 <= n <= 999 and a decoded Pms has                  *)
(* 1 <= slot <= 50.                                                        *)
C10_DecodedInRange ==
    (pc = "return" /\ op = "MemoryChannel_try_from" /\ IsOk(result)) =>
        /\ result.val.kind = "Mem" => (1 <= result.val.n /\ result.val.n <= 999)
        /\ result.val.kind = "Pms" => (1 <= result.val.n /\ result.val.n <= 50)

----------------------------------------------------------------------------
(* Claims about the command decoders.                                      *)

DecoderOps ==
    {"CmdId_decode", "CmdMr_decode", "CmdMt_decode", "CmdMc_decode", "CmdCn_decode",
     "ftdx10_CmdId_decode", "ftdx10_CmdMd_decode", "ftdx10_CmdPc_decode",
     "ftdx10_CmdTx_decode"}

\* The number of parameter bytes each decoder's reply is stated to carry.
StatedParams(o) ==
    CASE o \in {"CmdId_decode", "ftdx10_CmdId_decode"} -> 4
      [] o = "ftdx10_CmdMd_decode" -> 2
      [] o = "ftdx10_CmdPc_decode" -> 3
      [] o = "ftdx10_CmdTx_decode" -> 1
      [] o = "CmdMr_decode" -> 27
      [] o = "CmdMt_decode" -> 17
      [] o = "CmdMc_decode" -> 6
      [] o = "CmdCn_decode" -> 5

Decoded == pc = "return" /\ op \in DecoderOps

\* C11: every decoder returns the generic failure, and no value, for every
\* buffer whose length is not its parameter count plus 3 (the empty and the
\* short buffers included).
C11_WrongLengthFails ==
    (Decoded /\ Len(arg) # StatedParams(op) + 3) => result = Err

\* A 29-byte buffer with the MR mnemonic and a terminator has been refused.
C11_Witness ==
    /\ pc = "return" /\ op = "CmdMr_decode"
    /\ Len(arg) = 29
    /\ SubSeq(arg, 1, 2) = CMD_MR.code /\ Contains(arg, Asc(";"))
    /\ result = Err

\* C12: a decoder run on any buffer ends in a value or in the generic
\* failure; it never panics through an index out of range, a failed unwrap
\* or an arithmetic overflow.
C12_NoPanic == Decoded => result # Panic

\* The code characters stated for the bands and the modes.
StatedBandCode == [Main |-> Asc("0"), Sub |-> Asc("1")]

StatedModeCode ==
    [Lsb |-> Asc("1"), Usb |-> Asc("2"), CwU |-> Asc("3"), Fm |-> Asc("4"),
     Am |-> Asc("5"), RttyL |-> Asc("6"), CwL |-> Asc("7"), DataL |-> Asc("8"),
     RttyU |-> Asc("9"), DataFm |-> Asc("A"), FmN |-> Asc("B"), DataU |-> Asc("C"),
     AmN |-> Asc("D"), Psk |-> Asc("E"), DataFmN |-> Asc("F")]

\* C13: for every band and mode the MD set frame is 'M', 'D', the band's
\* code, the mode's code, ';' ("MD04;" for Main and Fm) and decoding that
\* frame returns the band and the mode; decoding a validated 5-byte MD reply
\* whose band byte is not '0' or '1', or whose mode byte is not one of
\* '1'..'9', 'A'..'F', fails.
C13_ModeFrames ==
    /\ (pc = "return" /\ op = "ftdx10_CmdMd_set") =>
          /\ result = Ok(<<Asc("M"), Asc("D"), StatedBandCode[arg.band],
                           StatedModeCode[arg.mode], Asc(";")>>)
          /\ ftdx10_CmdMd_decode(result.val) =
                 Ok([band |-> arg.band, mode |-> arg.mode])
          /\ (arg = [band |-> "Main", mode |-> "Fm"] =>
                 result.val = Str(<<"M", "D", "0", "4", ";">>))
    /\ (/\ pc = "return" /\ op = "ftdx10_CmdMd_decode"
        /\ Len(arg) = 5 /\ IsOk(ftdx10_is_reply_ok(ftdx10_CMD_MD, arg))
        /\ \/ arg[3] \notin Range(StatedBandCode)
           \/ arg[4] \notin Range(StatedModeCode)) => result = Err

\* The set frame of Sub and DataFmN has been built.
C13_Witness ==
    /\ pc = "return" /\ op = "ftdx10_CmdMd_set"
    /\ arg = [band |-> "Sub", mode |-> "DataFmN"]
    /\ result = Ok(Str(<<"M", "D", "1", "F", ";">>))

\* The 27 parameter bytes of a 30-byte reply, bytes 2..28.
MrParams(buffer) == SubSeq(buffer, 3, 29)

\* The field decoders applied at the stated offsets of p (counted from 0):
\* channel p[0..5], frequency p[5..14], clarifier p[14..19], then p[19],
\* p[20], p[21], p[22], p[23] and p[26].
MrFields(p, checks) ==
    [channel |-> MemoryChannel_try_from(SubSeq(p, 1, 5)),
     frequency_hz |-> FrequencyHz_try_from_bytes(SubSeq(p, 6, 14)),
     clarifier_offset_hz |-> ClarifierOffsetHz_try_from_bytes(SubSeq(p, 15, 19), checks),
     rx_clarifier_enabled |-> RxClarifierOnOff_try_from(p[20]),
     tx_clarifier_enabled |-> TxClarifierOnOff_try_from(p[21]),
     mode |-> Mode_try_from(p[22]),
     ch_type |-> ChType_try_from(p[23]),
     sql_type |-> SqlType_try_from(p[24]),
     shift |-> Shift_try_from(p[27])]

MrAccepted(buffer) == Len(buffer) = 30 /\ IsOk(is_reply_ok(CMD_MR, buffer))

\* The buffer with both reserved bytes, p[24] and p[25], overwritten.
ReservedCleared(buffer) == [buffer EXCEPT ![27] = Asc("0"), ![28] = Asc("0")]

\* C14: for a 30-byte buffer accepted by MR validation, decoding succeeds
\* exactly when every field decoder succeeds on its bytes of p, it then
\* returns the nine decoded fields, and the bytes p[24] and p[25] never
\* influence the result.
C14_MrFields ==
    (pc = "return" /\ op = "CmdMr_decode" /\ MrAccepted(arg)) =>
        LET f == MrFields(MrParams(arg), overflow_checks)
        IN  /\ IsOk(result) <=> \A k \in DOMAIN f : IsOk(f[k])
            /\ IsOk(result) => result.val = [k \in DOMAIN f |-> f[k].val]
            /\ ~IsOk(result) => result = Err
            /\ MrAccepted(ReservedCleared(arg)) =>
                  CmdMr_decode(ReservedCleared(arg), overflow_checks) = result

\* A reply with nine good fields and the reserved bytes '9' and ';' has been
\* decoded into a record.
C14_Witness ==
    /\ pc = "return" /\ op = "CmdMr_decode" /\ MrAccepted(arg)
    /\ arg[27] = Asc("9") /\ arg[28] = Asc(";")
    /\ IsOk(result)
    /\ result.val.channel = Pms(1, "Lower")
    /\ result.val.clarifier_offset_hz = -1234
    /\ result.val.shift = "MinusShift"

\* C15: every MemoryRead returned as success has a frequency in a legal band
\* and a clarifier offset of magnitude at most 9990; the default baseline
\* with frequency 0 is never returned, so every record read_radio_data
\* writes carries a legal frequency and clarifier offset.
C15_ReadValuesLegal ==
    /\ (pc = "return" /\ op = "CmdMr_decode" /\ IsOk(result)) =>
          /\ InBand(result.val.frequency_hz)
          /\ result.val.frequency_hz # 0
          /\ -9990 <= result.val.clarifier_offset_hz
          /\ result.val.clarifier_offset_hz <= 9990
    /\ (pc = "return" /\ op = "read_radio_data_channel") =>
          /\ IsOk(result)
          /\ result.val.some =>
                /\ InBand(result.val.v.freq)
                /\ -9990 <= result.val.v.clarifier_offset_hz
                /\ result.val.v.clarifier_offset_hz <= 9990

\* A record has been written for channel 100 from a reply on 432.1 MHz.
C15_Witness ==
    /\ pc = "return" /\ op = "read_radio_data_channel"
    /\ arg.ch = CHANNELS
    /\ IsOk(result) /\ result.val.some
    /\ result.val.v.channel = Str(<<"0", "0", "1", "0", "0">>)
    /\ result.val.v.freq = 432100000
    /\ result.val.v.clarifier_offset_hz = -1234

\* C16: Power set fails, building no frame, for every u8 outside 5..100; for
\* p in 5..100 it returns 'P', 'C', the hundreds, tens and units digit of p
\* and ';' ("PC005;" for 5, "PC100;" for 100).
C16_PowerSet ==
    (pc = "return" /\ op = "ftdx10_CmdPc_set") =>
        /\ (arg < 5 \/ arg > 100) => result = Err
        /\ (5 <= arg /\ arg <= 100) =>
              result = Ok(<<Asc("P"), Asc("C"),
                            Asc("0") + (arg \div 100),
                            Asc("0") + ((arg \div 10) % 10),
                            Asc("0") + (arg % 10),
                            Asc(";")>>)
        /\ arg = 5 => result = Ok(Str(<<"P", "C", "0", "0", "5", ";">>))
        /\ arg = 100 => result = Ok(Str(<<"P", "C", "1", "0", "0", ";">>))

\* The frame for the largest power has been built.
C16_Witness ==
    /\ pc = "return" /\ op = "ftdx10_CmdPc_set" /\ arg = 100
    /\ result = Ok(Str(<<"P", "C", "1", "0", "0", ";">>))

\* C17: for every 6-byte PC reply accepted by validation whose three
\* parameter bytes are digits of value d, Power decode returns d when
\* d <= 255 and the failure when d > 255: no 8-bit overflow, no wrapped
\* result.
C17_PowerDecode ==
    (/\ pc = "return" /\ op = "ftdx10_CmdPc_decode"
     /\ Len(arg) = 6 /\ IsOk(ftdx10_is_reply_ok(ftdx10_CMD_PC, arg))
     /\ AllDigits(SubSeq(arg, 3, 5))) =>
        LET d == DecimalValue(SubSeq(arg, 3, 5))
        IN  result = IF d <= 255 THEN Ok(d) ELSE Err

\* The side and the tone type stated for the characters '0' and '1'.
StatedSide(c) == IF c = Asc("0") THEN "Main" ELSE "Sub"
StatedToneType(c) == IF c = Asc("0") THEN "Ctcss" ELSE "Dcs"

BinaryChars == {Asc("0"), Asc("1")}

\* C18: for a well-formed reply 'M', 'C', a side character ('0' Main, '1'
\* Sub), a valid 5-character channel and ';', MC decode returns the side and
\* the channel; for 'C', 'N', a side character, a tone-type character ('0'
\* or '1'), three digits and ';', CN decode returns the side, the tone type
\* and the tone code.
C18_SideReplies ==
    /\ (/\ pc = "return" /\ op = "CmdMc_decode"
        /\ Len(arg) = 9 /\ SubSeq(arg, 1, 2) = Str(<<"M", "C">>)
        /\ arg[3] \in BinaryChars
        /\ IsOk(MemoryChannel_try_from(SubSeq(arg, 4, 8)))
        /\ arg[9] = Asc(";")) =>
            result = Ok([side |-> StatedSide(arg[3]),
                         channel |-> MemoryChannel_try_from(SubSeq(arg, 4, 8)).val])
    /\ (/\ pc = "return" /\ op = "CmdCn_decode"
        /\ Len(arg) = 8 /\ SubSeq(arg, 1, 2) = Str(<<"C", "N">>)
        /\ arg[3] \in BinaryChars /\ arg[4] \in BinaryChars
        /\ AllDigits(SubSeq(arg, 5, 7))
        /\ DecimalValue(SubSeq(arg, 5, 7)) <= 255
        /\ arg[8] = Asc(";")) =>
            result = Ok([side |-> StatedSide(arg[3]),
                         tone_type |-> StatedToneType(arg[4]),
                         tone_code |-> DecimalValue(SubSeq(arg, 5, 7))])

----------------------------------------------------------------------------
(* Claims about the signed 4-digit field.                                  *)

SignChars == {Asc("+"), Asc("-")}

\* C19: decoding a ClarifierOffset from bytes fails when the first byte is
\* not a sign character ("?1234" is refused) and when the length is not 5.
C19_SignRequired ==
    (/\ pc = "return" /\ op = "ClarifierOffsetHz_try_from_bytes"
     /\ (Len(arg) # 5 \/ arg[1] \notin SignChars)) => result = Err

\* C20: buf4_to_i16 returns -d for a 5-byte input whose first byte is '-'
\* and whose last four bytes are the digits of d, returns +d for every other
\* first byte, and fails only on a length other than 5 or a non-digit among
\* the last four bytes.
C20_SignDefaultsPositive ==
    (pc = "return" /\ op = "buf4_to_i16") =>
        IF Len(arg) = 5 /\ AllDigits(Tail(arg))
          THEN result = Ok(IF arg[1] = Asc("-")
                             THEN -DecimalValue(Tail(arg))
                             ELSE DecimalValue(Tail(arg)))
          ELSE result = Err

\* "?1234" has been parsed as +1234.
C20_Witness ==
    /\ pc = "return" /\ op = "buf4_to_i16"
    /\ arg = Str(<<"?", "1", "2", "3", "4">>)
    /\ result = Ok(1234)

----------------------------------------------------------------------------
(* Claims about the field parsers.                                         *)

\* The value of a sign byte and digits: negative only under '-'.
SignedValue(s) ==
    IF s[1] = Asc("-") THEN -DecimalValue(Tail(s)) ELSE DecimalValue(Tail(s))

\* C21: each fixed-width parser returns the decimal value of its input
\* exactly when the input has the expected length (4 for buf4_to_u16, 9 for
\* buf9_to_u32, sign + 5 for buf5_to_i16) and digits in the digit positions,
\* and fails otherwise; buf5_to_i16 also fails for a signed value outside
\* -32768..32767; no accepted input overflows the result type.
C21_FieldParsers ==
    /\ (pc = "return" /\ op = "buf4_to_u16") =>
          /\ result = IF Len(arg) = 4 /\ AllDigits(arg)
                        THEN Ok(DecimalValue(arg)) ELSE Err
          /\ IsOk(result) => result.val <= 65535
    /\ (pc = "return" /\ op = "buf9_to_u32") =>
          /\ result = IF Len(arg) = 9 /\ AllDigits(arg)
                        THEN Ok(DecimalValue(arg)) ELSE Err
          /\ IsOk(result) => result.val <= 999999999
    /\ (pc = "return" /\ op = "buf5_to_i16") =>
          /\ result = IF /\ Len(arg) = 6 /\ AllDigits(Tail(arg))
                         /\ -32768 <= SignedValue(arg) /\ SignedValue(arg) <= 32767
                        THEN Ok(SignedValue(arg)) ELSE Err
          /\ arg = Str(<<"+", "3", "2", "7", "6", "7">>) => result = Ok(32767)
          /\ arg = Str(<<"-", "3", "2", "7", "6", "8">>) => result = Ok(-32768)
          /\ arg = Str(<<"+", "3", "2", "7", "6", "8">>) => result = Err

\* "+32768", one past the largest i16, has been refused.
C21_Witness ==
    /\ pc = "return" /\ op = "buf5_to_i16"
    /\ arg = Str(<<"+", "3", "2", "7", "6", "8">>)
    /\ result = Err

----------------------------------------------------------------------------
(* Claims about reply validation by membership.                            *)

Reversed(s) == [i \in 1..Len(s) |-> s[Len(s) + 1 - i]]

\* The last byte moved to the front.
Rotated(s) == IF s = <<>> THEN s ELSE <<s[Len(s)]>> \o SubSeq(s, 1, Len(s) - 1)

\* C25: is_reply_ok tests the mnemonic and the terminator by membership, not
\* by position: the verdict on a buffer is the verdict on the same bytes in
\* any other order, and CmdTx::decode returns a value for every 4-byte
\* buffer holding 'T', 'X' and ';' wherever they stand, so buffers whose
\* first two bytes are not the mnemonic, or whose last byte is not ';', are
\* accepted and decoded.
C25_MembershipOnly ==
    /\ (pc = "return" /\ op = "is_reply_ok") =>
          /\ is_reply_ok(arg.cmd, Reversed(arg.buf)) = result
          /\ is_reply_ok(arg.cmd, Rotated(arg.buf)) = result
    /\ (pc = "return" /\ op = "ftdx10_is_reply_ok") =>
          /\ ftdx10_is_reply_ok(arg.cmd, Reversed(arg.buf)) = result
          /\ ftdx10_is_reply_ok(arg.cmd, Rotated(arg.buf)) = result
    /\ (pc = "return" /\ op = "ftdx10_CmdTx_decode") =>
          (IsOk(result) <=>
              /\ Len(arg) = 4
              /\ {Asc("T"), Asc("X"), Asc(";")} \subseteq Range(arg))

\* The buffer ";XT0", with the terminator first and no mnemonic in front,
\* has been decoded by CmdTx::decode into a value.
C25_Witness ==
    /\ pc = "return" /\ op = "ftdx10_CmdTx_decode"
    /\ arg = Str(<<";", "X", "T", "0">>)
    /\ IsOk(result)

----------------------------------------------------------------------------
(* Claims about read_radio_data and cat_send.                              *)

\* The request frames, told apart by their bytes.
IsIdFrame(f) == f = Str(<<"I", "D", ";">>)

IsMemoryFrame(f, c1, c2) ==
    /\ Len(f) = 8
    /\ f[1] = Asc(c1) /\ f[2] = Asc(c2) /\ f[8] = Asc(";")
    /\ AllDigits(SubSeq(f, 3, 7))

IsMrFrame(f) == IsMemoryFrame(f, "M", "R")
IsMtFrame(f) == IsMemoryFrame(f, "M", "T")

FrameChannel(f) == DecimalValue(SubSeq(f, 3, 7))

\* The step of cat_send that writes a request to the port.
WritesRequest == cs = "write" /\ cs' = "read"

\* C22: the exchanges of read_radio_data are sequential and ordered.  No
\* request is written while the read of the previous exchange is unfinished;
\* the first request is ID and every memory request comes after the ID
\* exchange; MR requests go to the channels 1, 2, ..., 100 in ascending
\* order; an MT request for ch is written only directly after the MR
\* exchange for the same ch, when its decode succeeded, and so before the
\* MR request for ch + 1.
C22_Sequential ==
    /\ [][WritesRequest =>
            /\ ~outstanding
            /\ IsIdFrame(port_tx') \/ IsMrFrame(port_tx') \/ IsMtFrame(port_tx')
            /\ IsIdFrame(port_tx') <=> port_tx = <<>>
            /\ ~IsIdFrame(port_tx') =>
                  /\ id_reported # "none"
                  /\ FrameChannel(port_tx') \in 1..CHANNELS
            /\ IsMrFrame(port_tx') =>
                  FrameChannel(port_tx') =
                      IF IsIdFrame(port_tx) THEN 1 ELSE FrameChannel(port_tx) + 1
            /\ IsMtFrame(port_tx') =>
                  /\ IsMrFrame(port_tx)
                  /\ FrameChannel(port_tx') = FrameChannel(port_tx)
                  /\ read_outcome # "none" /\ ~outstanding
                  /\ IsOk(CmdMr_decode(port_rx, overflow_checks))]_vars
    /\ [](outstanding => cs = "read")
    /\ [](rd = "done" => FrameChannel(port_tx) = CHANNELS)

\* The MT request for channel 100 is on the wire, its read not finished.
C22_Witness ==
    /\ rd = "read_tag" /\ cs = "read" /\ outstanding
    /\ port_tx = Str(<<"M", "T", "0", "0", "1", "0", "0", ";">>)

\* The steps that decode: read_mem's and read_tag's, cat_send having returned.
DecodesMem == rd = "read_mem" /\ cs = "returned"
DecodesTag == rd = "read_tag" /\ cs = "returned"

\* What the channel loop does with the decode results.  A failed MR decode
\* goes to the next channel with no MT request and no record; a successful
\* one goes on to read_tag; a failed MT decode goes on to the record with an
\* absent tag; the channel is left with a record written if and only if its
\* MR decode succeeded; neither decode ends the run.
ChannelLoopSteps ==
    /\ DecodesMem =>
          LET m == CmdMr_decode(port_rx, overflow_checks)
          IN  /\ loop_mem' = m
              /\ pc' = "call"
              /\ IF IsOk(m)
                   THEN rd' = "read_tag" /\ loop_ch' = loop_ch
                   ELSE /\ rd' = "for" /\ loop_ch' = loop_ch + 1
                        /\ written' = None /\ port_tx' = port_tx
    /\ DecodesTag =>
          LET d == CmdMt_decode(port_rx)
          IN  /\ pc' = "call"
              /\ rd' = "serialize"
              /\ loop_tag' = IF IsOk(d) THEN Some(d.val) ELSE None
    /\ (IsMtFrame(port_tx') /\ port_tx' # port_tx) => IsOk(loop_mem)
    /\ written' # written /\ written' # None =>
          /\ IsOk(loop_mem)
          /\ written'.v.channel = SubSeq(CmdMr_read(Mem(loop_ch)), 3, 7)
          /\ written'.v.tag = loop_tag
    /\ (loop_ch >= 1 /\ loop_ch' # loop_ch) =>
          /\ loop_ch <= CHANNELS
          /\ loop_ch' = loop_ch + 1
          /\ written' # None <=> IsOk(loop_mem')

\* The step that ends the run.
RunEnds == pc = "call" /\ pc' = "return"

\* C23, as amended: once the ID reply has decoded, a failed MR or MT decode
\* never stops the run.  A record is written for ch if and only if the MR
\* decode for ch succeeded; a failed MR decode skips ch (no MT request, no
\* record) and the loop goes on with ch + 1; a failed MT decode still writes
\* the record, with an absent tag.  The run ends before channel 100 has been
\* attempted only where the ID reply fails to decode (no channel is
\* attempted) or where opening the port, a port write or a CSV operation
\* panics.
C23_DecodeFailureInLoop ==
    [][/\ ChannelLoopSteps
       /\ RunEnds =>
             \/ rd' = "done" /\ loop_ch = CHANNELS + 1
             \/ /\ rd' = "aborted" /\ rd = "validate_id" /\ loop_ch = 0
                /\ ~IsOk(CmdId_decode(port_rx))
             \/ /\ rd' = "panicked"
                /\ rd \in {"open", "create_csv", "serialize", "flush"} \/ cs = "write"]_vars

\* The record of channel 100 has been written with an absent tag: its MR
\* reply decoded, its MT reply did not.
C23_Witness ==
    /\ rd = "for" /\ loop_ch = CHANNELS + 1
    /\ IsOk(loop_mem) /\ ~IsOk(CmdMt_decode(port_rx))
    /\ written # None /\ written.v.tag = None

\* C23, as stated: no decode failure stops the run, and the run, where it
\* has not panicked, has attempted all 100 channels.
C23_DecodeFailureNeverStops ==
    /\ [][ChannelLoopSteps]_vars
    /\ [](pc = "return" /\ rd # "panicked" => rd = "done" /\ loop_ch = CHANNELS + 1)

\* C24: validation accepts exactly one id, 840 in ftx1 and 761 in ftdx10,
\* and rejects every other 16-bit id.  In read_radio_data an ID reply that
\* decodes to another id is only reported ("can't connect") and the memory
\* read proceeds; an ID reply that does not decode makes read_radio_data
\* return Err before any MR or MT request is written and before the CSV
\* output is created.
C24_IdValidation ==
    /\ (pc = "return" /\ op = "CmdId_validate") =>
          result = IF arg = 840 THEN Ok(<<>>) ELSE Err
    /\ (pc = "return" /\ op = "ftdx10_CmdId_validate") =>
          result = IF arg = 761 THEN Ok(<<>>) ELSE Err
    /\ rd = "create_csv" =>
          LET id == CmdId_decode(port_rx)
          IN  /\ IsOk(id)
              /\ pc = "call"
              /\ id_reported = IF id.val = 840 THEN "found" ELSE "cant_connect"
    /\ rd = "aborted" =>
          /\ ~IsOk(CmdId_decode(port_rx))
          /\ pc = "return" /\ result = Err
          /\ id_reported = "none"
          /\ IsIdFrame(port_tx)
          /\ ~csv_created /\ loop_ch = 0
    /\ (csv_created \/ IsMrFrame(port_tx) \/ IsMtFrame(port_tx)) =>
          id_reported # "none"

\* The radio answered 0761 to ID, which was reported, and the memory read
\* has gone on to the MR request for channel 2.
C24_Witness ==
    /\ id_reported = "cant_connect"
    /\ csv_created
    /\ rd = "read_mem" /\ cs = "read"
    /\ port_tx = CmdMr_read(Mem(2))

\* cat_send has returned from a read that timed out.
TimedOutReturned == cs = "returned" /\ read_outcome = "timed_out"

\* C26: when the read of cat_send times out, the buffer handed back is the
\* initial one, 255 zero bytes and not an empty one, and each of the ID, MR
\* and MT decoders rejects it with Err; so the exchange ends as a decode
\* failure: read_validate_id returns Err, read_mem's channel is skipped,
\* read_tag gives no tag.
C26_TimedOutIsDecodeFailure ==
    /\ [](TimedOutReturned =>
            /\ Len(port_rx) = RX_BUFFER_SIZE
            /\ \A i \in 1..RX_BUFFER_SIZE : port_rx[i] = 0
            /\ CmdId_decode(port_rx) = Err
            /\ CmdMr_decode(port_rx, overflow_checks) = Err
            /\ CmdMt_decode(port_rx) = Err)
    /\ [][TimedOutReturned =>
            /\ rd \in {"validate_id", "read_mem", "read_tag"}
            /\ rd = "validate_id" => rd' = "aborted" /\ result' = Err
            /\ rd = "read_mem" =>
                  rd' = "for" /\ loop_mem' = Err /\ loop_ch' = loop_ch + 1
            /\ rd = "read_tag" => rd' = "serialize" /\ loop_tag' = None]_vars

\* The MT exchange of channel 100 has timed out and cat_send has returned.
C26_Witness ==
    /\ TimedOutReturned
    /\ rd = "read_tag" /\ loop_ch = CHANNELS

\* cat_send between its write and its return.
Reading == cs = "read"

\* The read loop of cat_send: the request is written once and not again
\* while reading; the call returns on the first read that succeeds or times
\* out and only then; a read failing with another error is followed by
\* another read, and neither ends the call nor the run.
ReadLoopSteps ==
    /\ WritesRequest => port_tx' = Frame /\ port_rx' = rx_initial
    /\ Reading =>
          /\ port_tx' = port_tx
          /\ cs' \in {"read", "returned"}
          /\ pc' = "call" /\ rd' = rd
          /\ cs' = "returned" <=> read_outcome' \in {"ok", "timed_out"}
          /\ read_outcome' = "error" => cs' = "read" /\ port_rx' = port_rx
          /\ read_outcome' = "timed_out" => port_rx' = port_rx

\* C27, as amended: every cat_send call whose write succeeds eventually
\* returns, given that the port eventually reports a successful read or a
\* timeout; a failed write panics and the call never returns.  The call
\* makes exactly one write, followed by reads until the first read that
\* succeeds or times out; a read that fails with another error kind is
\* retried, without a bound, and is never returned as a failure.
C27_CatSendReturns ==
    /\ Reading ~> cs = "returned"
    /\ [][/\ ReadLoopSteps
          /\ cs = "write" => cs' = "read" \/ (rd' = "panicked" /\ pc' = "return")]_vars

\* cat_send has returned a reply after reads that failed with other errors.
C27_Witness ==
    /\ cs = "returned" /\ read_outcome = "ok"
    /\ read_errors = MaxReadErrors
    /\ port_rx # <<>>

\* C27, as stated: every cat_send call eventually returns, the write being
\* followed by the reads.
C27_EveryCallReturns ==
    /\ cs = "write" ~> cs = "returned"
    /\ [][ReadLoopSteps /\ (cs = "write" => cs' = "read")]_vars

====
